---- MODULE Spec2Model ----
(***************************************************************************)
(* pico-wifi-settings: the remote update service (wifi_settings_remote.c)  *)
(* and the connection manager (wifi_settings_connect.c).                   *)
(*                                                                         *)
(* One TCP session of the service is modelled together with the lwIP      *)
(* transport it talks to.  Every lwIP callback (accept, recv, sent, err)   *)
(* is one action that runs to completion.  Bytes arrive in segments of    *)
(* arbitrary size; 16-byte blocks are assembled exactly as server_recv    *)
(* does it.  tcp_write may answer ERR_OK, ERR_MEM or another error.       *)
(*                                                                         *)
(* Cryptography is symbolic: an HMAC is the tuple of what it was computed  *)
(* over, a ciphertext block is the record of key, chain position and      *)
(* plaintext, a data hash is the record of the hashed fields.             *)
(***************************************************************************)
EXTENDS Integers, Sequences, FiniteSets, TLC

(***************************************************************************)
(* Program constants                                                       *)
(***************************************************************************)
AES_BLOCK_SIZE == 16
MAX_DATA_SIZE == 4096
ID_FIRST_USER_HANDLER == 128
ID_LAST_USER_HANDLER == 143

ID_GREETING == 70
ID_REQUEST == 71
ID_CHALLENGE == 72
ID_AUTHENTICATION == 73
ID_RESPONSE == 74
ID_ACKNOWLEDGE == 75
ID_OK == 76
ID_AUTH_ERROR == 77
ID_BAD_MSG_ERROR == 79
ID_BAD_PARAM_ERROR == 80
ID_BAD_HANDLER_ERROR == 81
ID_NO_SECRET_ERROR == 82
ID_CORRUPT_ERROR == 83
ID_PICO_INFO_HANDLER == 120
ID_UPDATE_HANDLER == 121
ID_UPDATE_REBOOT_HANDLER == 124
ID_FIRST_HANDLER == ID_PICO_INFO_HANDLER
NUM_HANDLERS == ID_LAST_USER_HANDLER + 1 - ID_FIRST_HANDLER
PROTOCOL_VERSION == 1
PICO_ERROR_NONE == 0
PICO_ERROR_INVALID_ARG == -103
PICO_ERROR_INVALID_DATA == -102
\* snprintf in server_accept: "xxx\r" + 16 hex digits + "\r" +
\* "pico-wifi-settings version " + "0.3.0" + "\r\n"
GREETING_STRING_SIZE == 55

(***************************************************************************)
(* Bounds of the model                                                     *)
(***************************************************************************)
\* requests (decrypted request headers) one session may receive
MaxRequests == 2
\* blocks tcp_write accepts before the send buffer is full
SndBufBlocks == 2
\* slots of the settings file (ssid1.., bssid1..) the connection manager reads
MAX_NUM_SSIDS == 3
\* the clock stops here
MaxTime == 5

\* The times of the connection manager, in units of the period of its worker
PERIODIC_TIME_MS == 1
INITIAL_SETUP_TIME_MS == 1
REPEAT_SCAN_TIME_MS == 3
CONNECT_TIMEOUT_TIME_MS == 2

NULL == "NULL"

\* The settings region, scaled: a page of FLASH_PAGE_SIZE bytes (0x200 on the
\* device) and a region of SettingsPages pages (one sector of 16 pages there)
FLASH_PAGE_SIZE == 2
SettingsPages == 3
WIFI_SETTINGS_FILE_SIZE == SettingsPages * FLASH_PAGE_SIZE

\* the longest settings file looked up
MaxFileLen == 5

\* The whole Flash, scaled: sectors of FLASH_SECTOR_SIZE bytes (0x2000 in the
\* test bench), the program in the first ProgramSectors of FlashSectors
\* sectors and the settings file in the last one
FLASH_SECTOR_SIZE == 2
FlashSectors == 4
ProgramSectors == 1
PICO_FLASH_SIZE_BYTES == FlashSectors * FLASH_SECTOR_SIZE

\* The board id of the discovery responder, scaled: BoardIdChars characters
\* (BOARD_ID_SIZE * 2, 16 on the device)
BoardIdChars == 3

\* clients that may be connected to the listener at the same time
MaxClients == 2

\* flash_program_error_at of a test run without an injected error
NoError == WIFI_SETTINGS_FILE_SIZE + 100

PICO_OK == 0

\* uint8_t arithmetic (handler_id = msg_type - ID_FIRST_HANDLER)
U8(x) == x % 256

\* number of 16-byte blocks that a loop "index += 16 until index >= size"
\* walks through when it has at least one iteration to do
NumBlocks(size) == (size + AES_BLOCK_SIZE - 1) \div AES_BLOCK_SIZE

(***************************************************************************)
(* 16-byte blocks.  A raw block is its first byte and an opaque rest; a    *)
(* header is an enc_message_header_t.                                      *)
(***************************************************************************)
\* Symbolic HMAC-SHA-256 keyed by the hashed secret.  The 15-byte and the
\* 32-byte truncations of one digest are represented by the same value.
Hmac(key, cc, sc, code) == [key |-> key, cc |-> cc, sc |-> sc, code |-> code]

\* all-zero bytes where an HMAC output or a key would be
NoTag == Hmac("zero", "zero", "zero", "--")

\* a cleartext block: first byte, then 15 bytes that are a string or a tag
Clear(b0, body, tag) == [kind |-> "raw", b0 |-> b0, body |-> body, tag |-> tag]

Raw(b0, body) == Clear(b0, body, NoTag)

ZeroBlock == Raw(0, "zero")

\* The symbolic SHA-256 (truncated to DATA_HASH_SIZE) of a header prefix
\* and the data bytes it covers
Hash(data_size, param, msg_type, covered) ==
    [data_size |-> data_size, parameter_or_result |-> param,
     msg_type |-> msg_type, data |-> covered]

\* seven zero bytes (calloc / memset), and a hash value that matches nothing
ZeroHash == Hash(-1, 0, 0, <<>>)
WrongHash == Hash(-2, 0, 0, <<>>)

Header(data_size, param, msg_type, data_hash) ==
    [kind |-> "hdr", data_size |-> data_size, parameter_or_result |-> param,
     msg_type |-> msg_type, data_hash |-> data_hash]

ZeroHeader == Header(0, 0, 0, ZeroHash)

\* session->data: the blocks written so far and the content of the rest
ZeroData == [blocks |-> <<>>, fill |-> ZeroBlock]

DataAt(d, i) == IF i + 1 <= Len(d.blocks) THEN d.blocks[i + 1] ELSE d.fill

DataPut(d, i, blk) ==
    [d EXCEPT !.blocks =
        [j \in 1..(IF i + 1 > Len(d.blocks) THEN i + 1 ELSE Len(d.blocks)) |->
            IF j = i + 1 THEN blk
            ELSE IF j <= Len(d.blocks) THEN d.blocks[j] ELSE d.fill]]

\* the bytes data[0 .. size-1], block by block
DataPrefix(d, size) == [j \in 1..NumBlocks(size) |-> DataAt(d, j - 1)]

(***************************************************************************)
(* State                                                                   *)
(***************************************************************************)
VARIABLES
    session,            \* the session_t allocated by server_accept
    heap,               \* "none" | "live" | "freed": the calloc'ed session_t
    heap_error,         \* "none" | "double_free" | "use_after_free"
    pcb,                \* the client tcp_pcb: state, tcp_arg, callbacks
    unacked,            \* blocks accepted by tcp_write and not yet acknowledged
    g_handler_table,    \* handler_id -> callback1, callback2
    g_secret_valid,
    g_secret_hashed,
    rebooted,           \* a stage-2 handler reset the device
    trace,              \* history: blocks in, handler calls, disconnect, close, free
    written,            \* history: every block tcp_write accepted
    refused,            \* history: "waiting" while a block tcp_write answered ERR_MEM
                        \* for waits, "written" once such a block was accepted later
    generated,          \* history: every block generate_output_block produced
    oob_store,          \* a byte was stored outside session->input_block
    nreq,               \* request headers received so far (bounded by MaxRequests)
    reg                 \* the latest call of a registration function, with its
                        \* return value, until the caller has read it

\* The connection manager and what it talks to
VARIABLES
    g_wifi_state,       \* the ConnectionContext: cstate, selected_ssid_index,
                        \* ssid_scan_info, the two deadlines, the periodic worker
    cyw43_state,        \* the WiFi driver: scan, join and link
    key_value_items,    \* the settings file: ssid<N> and bssid<N> of every slot
    current_time,       \* the clock, in units of PERIODIC_TIME_MS
    scan_history        \* history: time of init, of the two latest scan starts,
                        \* and the joins of each slot since the latest scan start

cmvars == <<g_wifi_state, cyw43_state, key_value_items, current_time, scan_history>>

\* The settings store: the settings region of Flash and a save in progress
VARIABLES
    flash_fake,         \* the bytes of the settings region of Flash
    save,               \* the call of wifi_settings_update_flash_*: its
                        \* arguments, its position and its return value
    flash_ops,          \* history: the Flash primitives of the call, in order
    reader_saw          \* history: what the latest reader of the region saw,
                        \* and the position of the save at that moment

savevars == <<flash_fake, save, flash_ops, reader_saw>>

\* The settings store: looking a key up in a settings file
VARIABLES
    lookup              \* the call of wifi_settings_get_value_for_key_within_file:
                        \* its arguments and, once it returned, its results

lookupvars == <<lookup>>

\* The settings store: the RAM copy of the settings file and its editor
VARIABLES
    fh                  \* the file_handle_t: its contents, and the call of
                        \* file_set or file_discard made on it

filevars == <<fh>>

\* The handlers that write Flash: ID_WRITE_FLASH_HANDLER and the two stages of
\* ID_OTA_FIRMWARE_UPDATE_HANDLER
VARIABLES
    flash_dev,          \* the bytes of the whole Flash, by Flash address
    request             \* the request handled: its parameters, its position,
                        \* the result of the first stage and the Flash
                        \* addresses erased or programmed for it

handlervars == <<flash_dev, request>>

\* The discovery responder on UDP
VARIABLES
    responder           \* the last datagram given to responder_recv, where it
                        \* came from and what was sent for it

discoveryvars == <<responder>>

\* The TCP listener and the sessions of the clients it accepted
VARIABLES
    live_sessions       \* how many session_t are allocated and not yet freed

listenervars == <<live_sessions>>

storevars == <<savevars, lookupvars, filevars, handlervars, discoveryvars, listenervars>>

vars == <<session, heap, heap_error, pcb, unacked, g_handler_table,
          g_secret_valid, g_secret_hashed, rebooted, trace, written, refused,
          generated, oob_store, nreq, reg, cmvars, storevars>>

\* The whole state as one value, so that the C functions can be written as
\* operators from state to state
World ==
    [session |-> session, heap |-> heap, heap_error |-> heap_error, pcb |-> pcb,
     unacked |-> unacked, g_handler_table |-> g_handler_table,
     g_secret_valid |-> g_secret_valid, g_secret_hashed |-> g_secret_hashed,
     rebooted |-> rebooted, trace |-> trace, written |-> written,
     refused |-> refused,
     generated |-> generated,
     oob_store |-> oob_store, nreq |-> nreq, reg |-> reg]

Commit(w) ==
    /\ session' = w.session
    /\ heap' = w.heap
    /\ heap_error' = w.heap_error
    /\ pcb' = w.pcb
    /\ unacked' = w.unacked
    /\ g_handler_table' = w.g_handler_table
    /\ g_secret_valid' = w.g_secret_valid
    /\ g_secret_hashed' = w.g_secret_hashed
    /\ rebooted' = w.rebooted
    /\ trace' = w.trace
    /\ written' = w.written
    /\ refused' = w.refused
    /\ generated' = w.generated
    /\ oob_store' = w.oob_store
    /\ nreq' = w.nreq
    /\ reg' = w.reg
    /\ UNCHANGED <<cmvars, storevars>>

Log(w, e) == [w EXCEPT !.trace = Append(@, e)]

\* calloc(1, sizeof(struct session_t))
ZeroSession ==
    [state |-> "NONE",
     data |-> ZeroData,
     data_index |-> 0,
     client_challenge |-> "zero",
     server_challenge |-> "zero",
     output_block |-> ZeroBlock,
     output_block_ready |-> FALSE,
     input_block_offset |-> 0,
     decrypt_iv |-> 0,
     encrypt_iv |-> 0,
     decrypt_key |-> NoTag,
     encrypt_key |-> NoTag,
     reply_header |-> ZeroHeader,
     request_header |-> ZeroHeader]

\* session->state = DISCONNECT (the history notes the first time, and how
\* many blocks had been generated and written by then)
EnterDisconnect(w) ==
    IF w.session.state = "DISCONNECT" THEN w
    ELSE Log([w EXCEPT !.session.state = "DISCONNECT"],
             [ev |-> "disconnect", ngen |-> Len(w.generated),
              nw |-> Len(w.written)])

(***************************************************************************)
(* Crypto helpers of the session                                           *)
(***************************************************************************)
generate_authentication(w, append_code) ==
    Hmac(w.g_secret_hashed, w.session.client_challenge,
         w.session.server_challenge, append_code)

\* AES-256-CBC keys from the two challenges; both IVs zero.  An IV is
\* represented by its position in the CBC chain of its direction.
generate_keys(w) ==
    [w EXCEPT !.session.encrypt_key = generate_authentication(w, "SK"),
              !.session.encrypt_iv = 0,
              !.session.decrypt_key = generate_authentication(w, "CK"),
              !.session.decrypt_iv = 0]

Cipher(key, iv, pt) == [kind |-> "enc", key |-> key, iv |-> iv, pt |-> pt]

encrypt_block(w, src) ==
    [w EXCEPT !.session.output_block =
                  Cipher(w.session.encrypt_key, w.session.encrypt_iv, src),
              !.session.encrypt_iv = @ + 1]

\* what a block decrypts to when it was not made with this key at this
\* position of the chain: bytes the client does not control
GarbageHeader == Header(MAX_DATA_SIZE + 1, 0, 0, WrongHash)
GarbageBlock == Raw(255, "garbage")

Decrypts(w, blk) ==
    /\ blk.kind = "enc"
    /\ blk.key = w.session.decrypt_key
    /\ blk.iv = w.session.decrypt_iv

\* decrypt_block: the plaintext of session->input_block (blk) read as a
\* header, or as data, and the context afterwards (the chain moves on)
DecryptedHeader(w, blk) == IF Decrypts(w, blk) THEN blk.pt ELSE GarbageHeader

DecryptedData(w, blk) == IF Decrypts(w, blk) THEN blk.pt ELSE GarbageBlock

decrypt_block(w) == [w EXCEPT !.session.decrypt_iv = @ + 1]

generate_enc_data_hash(w, header) ==
    Hash(header.data_size, header.parameter_or_result, header.msg_type,
         DataPrefix(w.session.data, header.data_size))

generate_enc_header_for_error(w, msg_type) ==
    LET h0 == Header(0, 0, msg_type, ZeroHash)
        h1 == [h0 EXCEPT !.data_hash = generate_enc_data_hash(w, h0)]
    IN EnterDisconnect(encrypt_block([w EXCEPT !.session.reply_header = h1], h1))

\* (variant: the error block is made without leaving the SEND_ state)
generate_clear_header_and_stay(w, msg_type) ==
    [w EXCEPT !.session.output_block = Clear(msg_type, "zero", NoTag)]

\* memset(block, 0, 16); block[0] = msg_type; state = DISCONNECT
generate_clear_header_for_error(w, msg_type) ==
    EnterDisconnect([w EXCEPT !.session.output_block = Clear(msg_type, "zero", NoTag)])

(***************************************************************************)
(* generate_output_block                                                   *)
(***************************************************************************)
SendStates ==
    {"SEND_GREETING", "SEND_CHALLENGE", "SEND_AUTHENTICATION",
     "SEND_BAD_MSG_ERROR", "SEND_AUTH_ERROR", "SEND_NO_SECRET_ERROR",
     "SEND_CORRUPT_ERROR", "SEND_BAD_PARAM_ERROR", "SEND_BAD_HANDLER_ERROR",
     "SEND_ENC_REPLY_HEADER", "SEND_ENC_REPLY_PAYLOAD",
     "SEND_ENC_REPLY_HEADER_WITH_CALLBACK2"}

ExpectStates ==
    {"EXPECT_REQUEST", "EXPECT_AUTHENTICATION", "EXPECT_ACKNOWLEDGE",
     "EXPECT_ENC_REQUEST_HEADER", "EXPECT_ENC_REQUEST_PAYLOAD"}

\* (variant: DISCONNECT produces a block too)
CanGenerateAfterDisconnect(st) == st \in SendStates \cup {"DISCONNECT"}

\* the value generate_output_block returns
CanGenerate(st) == st \in SendStates

\* (variant: one more payload block than the reply has)
ReplyDoneLate(next_index, data_size) == next_index > data_size

\* session->data_index >= session->reply_header.data_size, after a block
ReplyDone(next_index, data_size) == next_index >= data_size

\* the session after generate_output_block returned true (rng: get_rand_128)
GenerateBlock(w, rng) ==
    LET s == w.session
        st == s.state
        next_index == s.data_index + AES_BLOCK_SIZE
    IN CASE st = "SEND_GREETING" ->
               [w EXCEPT !.session.output_block = DataAt(s.data, s.data_index \div AES_BLOCK_SIZE),
                         !.session.data_index = next_index,
                         !.session.state =
                             IF ReplyDone(next_index, s.reply_header.data_size)
                             THEN "EXPECT_REQUEST" ELSE st]
         [] st = "SEND_CHALLENGE" ->
               [w EXCEPT !.session.server_challenge = rng,
                         !.session.output_block = Clear(ID_CHALLENGE, rng, NoTag),
                         !.session.state = "EXPECT_AUTHENTICATION"]
         [] st = "SEND_AUTHENTICATION" ->
               [w EXCEPT !.session.output_block =
                             Clear(ID_RESPONSE, "auth", generate_authentication(w, "SA")),
                         !.session.state = "EXPECT_ACKNOWLEDGE"]
         [] st = "SEND_BAD_MSG_ERROR" -> generate_clear_header_for_error(w, ID_BAD_MSG_ERROR)
         [] st = "SEND_AUTH_ERROR" -> generate_clear_header_for_error(w, ID_AUTH_ERROR)
         [] st = "SEND_NO_SECRET_ERROR" -> generate_clear_header_for_error(w, ID_NO_SECRET_ERROR)
         [] st = "SEND_CORRUPT_ERROR" -> generate_enc_header_for_error(w, ID_CORRUPT_ERROR)
         [] st = "SEND_BAD_PARAM_ERROR" -> generate_enc_header_for_error(w, ID_BAD_PARAM_ERROR)
         [] st = "SEND_BAD_HANDLER_ERROR" -> generate_enc_header_for_error(w, ID_BAD_HANDLER_ERROR)
         [] st = "SEND_ENC_REPLY_HEADER" ->
               [encrypt_block(w, s.reply_header) EXCEPT !.session.state =
                    IF s.reply_header.data_size = 0
                    THEN "EXPECT_ENC_REQUEST_HEADER" ELSE "SEND_ENC_REPLY_PAYLOAD"]
         [] st = "SEND_ENC_REPLY_PAYLOAD" ->
               [encrypt_block(w, DataAt(s.data, s.data_index \div AES_BLOCK_SIZE))
                   EXCEPT !.session.data_index = next_index,
                          !.session.state =
                              IF ReplyDone(next_index, s.reply_header.data_size)
                              THEN "EXPECT_ENC_REQUEST_HEADER" ELSE st]
         [] st = "SEND_ENC_REPLY_HEADER_WITH_CALLBACK2" ->
               [encrypt_block(w, s.reply_header) EXCEPT !.session.state = "EXECUTE_CALLBACK2"]
         [] OTHER -> w

\* generate_output_block returning true, with the block noted in the history
\* (an error block enters DISCONNECT while it is generated: its history
\* entry counts the block itself)
generate_output_block(w, rng) ==
    LET w0 == [w EXCEPT !.generated = Append(@, ZeroBlock)]
        w1 == GenerateBlock(w0, rng)
    IN [w1 EXCEPT !.generated[Len(w.generated) + 1] = w1.session.output_block]

(***************************************************************************)
(* Handler registry and the handlers                                       *)
(***************************************************************************)
NoHandler == [callback1 |-> NULL, callback2 |-> NULL]

\* g_handler_table after wifi_settings_remote_init (WIFI_SETTINGS_REMOTE=1)
InitialHandlerTable ==
    [id \in 0..(NUM_HANDLERS - 1) |->
        CASE id = ID_PICO_INFO_HANDLER - ID_FIRST_HANDLER ->
                 [callback1 |-> "wifi_settings_pico_info_handler", callback2 |-> NULL]
          [] id = ID_UPDATE_HANDLER - ID_FIRST_HANDLER ->
                 [callback1 |-> "wifi_settings_update_handler", callback2 |-> NULL]
          [] id = ID_UPDATE_REBOOT_HANDLER - ID_FIRST_HANDLER ->
                 [callback1 |-> NULL, callback2 |-> "wifi_settings_update_reboot_handler2"]
          [] OTHER -> NoHandler]

\* no registration call whose return value is still to be read
NoCall == [msg_type |-> -1, callback1 |-> NULL, callback2 |-> NULL, rc |-> 0,
           before |-> InitialHandlerTable]

\* a registration call returns rc (before: the table at the call)
Return(w, before, msg_type, callback1, callback2, rc) ==
    [w EXCEPT !.reg = [msg_type |-> msg_type, callback1 |-> callback1,
                       callback2 |-> callback2, rc |-> rc, before |-> before]]

\* (variant: the bound of the table is tested with > instead of >=)
wifi_settings_remote_set_two_stage_handler_off_by_one(w, msg_type, callback1, callback2) ==
    LET handler_id == U8(msg_type - ID_FIRST_HANDLER)
        before == w.g_handler_table
    IN IF handler_id > NUM_HANDLERS
       THEN Return(w, before, msg_type, callback1, callback2, PICO_ERROR_INVALID_ARG)
       ELSE Return([w EXCEPT !.g_handler_table =
                        [id \in DOMAIN @ |->
                            IF id = handler_id
                            THEN [callback1 |-> callback1, callback2 |-> callback2]
                            ELSE @[id]]],
                   before, msg_type, callback1, callback2, PICO_ERROR_NONE)

wifi_settings_remote_set_two_stage_handler(w, msg_type, callback1, callback2) ==
    LET handler_id == U8(msg_type - ID_FIRST_HANDLER)
        before == w.g_handler_table
    IN IF handler_id >= NUM_HANDLERS
       THEN Return(w, before, msg_type, callback1, callback2, PICO_ERROR_INVALID_ARG)
       ELSE Return([w EXCEPT !.g_handler_table[handler_id] =
                                [callback1 |-> callback1, callback2 |-> callback2]],
                   before, msg_type, callback1, callback2, PICO_ERROR_NONE)

wifi_settings_remote_set_handler(w, msg_type, callback) ==
    wifi_settings_remote_set_two_stage_handler(w, msg_type, callback, NULL)

\* the hashed secret for the update_secret value of the settings file
\* ("zero": no update_secret, or an empty one)
wifi_settings_remote_update_secret(w, secret) ==
    [w EXCEPT !.g_secret_valid = (secret # "zero"),
              !.g_secret_hashed = secret]

\* What a stage-1 handler can do: its return value, the *output_data_size it
\* sets, whether it rewrites the data buffer; for the update handler, the
\* result of the flash update and the update_secret of the new file
HandlerOutcomes ==
    { [result |-> 0, out_size |-> 0, write |-> FALSE, secret |-> "zero"],
      [result |-> 7, out_size |-> 32, write |-> TRUE, secret |-> "K2"],
      [result |-> -1, out_size |-> 20, write |-> FALSE, secret |-> "K2"] }

\* (variant: the secret is refreshed before the result of the flash update
\* is looked at)
wifi_settings_update_handler_refresh_first(w, input_data_size, input_parameter, o) ==
    IF input_parameter # 0
    THEN [w |-> w, result |-> PICO_ERROR_INVALID_ARG, out_size |-> 0]
    ELSE IF o.result # 0
    THEN [w |-> wifi_settings_remote_update_secret(w, o.secret),
          result |-> PICO_ERROR_INVALID_DATA, out_size |-> 0]
    ELSE [w |-> wifi_settings_remote_update_secret(w, o.secret),
          result |-> input_data_size, out_size |-> 0]

\* the stage-1 handler of ID_UPDATE_HANDLER; o.result # 0: the flash update
\* fails (wifi_settings_update_flash_safe returns an error code)
wifi_settings_update_handler(w, input_data_size, input_parameter, o) ==
    IF input_parameter # 0
    THEN [w |-> w, result |-> PICO_ERROR_INVALID_ARG, out_size |-> 0]
    ELSE IF o.result # 0
    THEN [w |-> w, result |-> PICO_ERROR_INVALID_DATA, out_size |-> 0]
    ELSE [w |-> wifi_settings_remote_update_secret(w, o.secret),
          result |-> input_data_size, out_size |-> 0]

\* a stage-1 handler called as callback1(msg_type, session->data,
\* input_data_size, input_parameter, &output_data_size, arg);
\* output_data_size is MAX_DATA_SIZE at the call
Callback1(w, fn, msg_type, input_data_size, input_parameter, o) ==
    CASE fn = "wifi_settings_update_handler" ->
             wifi_settings_update_handler(w, input_data_size, input_parameter, o)
      [] fn = "wifi_settings_pico_info_handler" ->
             IF input_data_size # 0 \/ input_parameter # 0
             THEN [w |-> w, result |-> PICO_ERROR_INVALID_ARG, out_size |-> 0]
             ELSE [w |-> [w EXCEPT !.session.data =
                                     [blocks |-> <<>>, fill |-> Raw(0, "info")]],
                   result |-> 0,
                   out_size |-> IF o.out_size > MAX_DATA_SIZE
                                THEN MAX_DATA_SIZE ELSE o.out_size]
      [] OTHER ->
             [w |-> IF o.write
                    THEN [w EXCEPT !.session.data =
                                     [blocks |-> <<>>, fill |-> Raw(0, "out")]]
                    ELSE w,
              result |-> o.result, out_size |-> o.out_size]

\* stage-2 handlers that reset the device and never return
NeverReturns == {"wifi_settings_update_reboot_handler2"}

(***************************************************************************)
(* Request processing                                                      *)
(***************************************************************************)
\* (variant: every msg_type is taken to have a handler)
HandlerValidAny(w, msg_type) == TRUE

\* handler_id < NUM_HANDLERS and the entry has a callback1 or a callback2
HandlerValid(w, msg_type) ==
    LET handler_id == U8(msg_type - ID_FIRST_HANDLER)
    IN /\ handler_id < NUM_HANDLERS
       /\ \/ w.g_handler_table[handler_id].callback1 # NULL
          \/ w.g_handler_table[handler_id].callback2 # NULL

\* (variant: the data hash is not looked at)
DataHashIgnored(w) == TRUE

\* the data hash test of handle_enc_request_end
DataHashOk(w) ==
    generate_enc_data_hash(w, w.session.request_header)
        = w.session.request_header.data_hash

\* (variant: the request header is left as it was received)
PrepareCallback2KeepRequest(w, reply_data_size, result) ==
    [w EXCEPT !.session.reply_header.data_size = 0,
              !.session.state = "SEND_ENC_REPLY_HEADER_WITH_CALLBACK2"]

\* handle_enc_request_end when the handler has a callback2: nothing is sent
\* but the header; callback2 will find the size and result in request_header
PrepareCallback2(w, reply_data_size, result) ==
    [w EXCEPT !.session.reply_header.data_size = 0,
              !.session.request_header.data_size = reply_data_size,
              !.session.request_header.parameter_or_result = result,
              !.session.state = "SEND_ENC_REPLY_HEADER_WITH_CALLBACK2"]

handle_enc_request_end(w, o) ==
    LET hdr == w.session.request_header
        w0 == Log(w, [ev |-> "req_end", hdr |-> hdr, ngen |-> Len(w.generated),
                      covered |-> DataPrefix(w.session.data, hdr.data_size)])
    IN IF ~DataHashOk(w) THEN [w0 EXCEPT !.session.state = "SEND_CORRUPT_ERROR"]
       ELSE
       LET w1 == [w0 EXCEPT !.session.reply_header = Header(0, 0, ID_OK, ZeroHash)]
       IN IF ~HandlerValid(w1, hdr.msg_type)
          THEN [w1 EXCEPT !.session.state = "SEND_BAD_HANDLER_ERROR"]
          ELSE
          LET entry == w1.g_handler_table[U8(hdr.msg_type - ID_FIRST_HANDLER)]
              r == IF entry.callback1 # NULL
                   THEN Callback1(w1, entry.callback1, hdr.msg_type,
                                  hdr.data_size, hdr.parameter_or_result, o)
                   ELSE [w |-> w1, result |-> hdr.parameter_or_result,
                         out_size |-> hdr.data_size]
              w2 == IF entry.callback1 # NULL
                    THEN Log(r.w, [ev |-> "cb1", fn |-> entry.callback1,
                                   msg_type |-> hdr.msg_type,
                                   in_size |-> hdr.data_size,
                                   in_param |-> hdr.parameter_or_result,
                                   result |-> r.result, out_size |-> r.out_size,
                                   ngen |-> Len(r.w.generated),
                                   data |-> r.w.session.data])
                    ELSE r.w
              reply_data_size == IF r.out_size > MAX_DATA_SIZE
                                 THEN MAX_DATA_SIZE ELSE r.out_size
              w3 == [w2 EXCEPT !.session.data_index = 0,
                               !.session.reply_header.parameter_or_result = r.result]
              w4 == IF entry.callback2 # NULL
                    THEN PrepareCallback2(w3, reply_data_size, r.result)
                    ELSE [w3 EXCEPT !.session.reply_header.data_size = reply_data_size,
                                    !.session.state = "SEND_ENC_REPLY_HEADER"]
          IN [w4 EXCEPT !.session.reply_header.data_hash =
                            generate_enc_data_hash(w4, w4.session.reply_header)]

handle_enc_request_start(w, blk, o) ==
    LET hdr == DecryptedHeader(w, blk)
        w1 == [decrypt_block(w) EXCEPT !.session.request_header = hdr,
                                       !.nreq = @ + 1]
    IN IF ~HandlerValid(w1, hdr.msg_type)
       THEN [w1 EXCEPT !.session.state = "SEND_BAD_HANDLER_ERROR"]
       ELSE IF hdr.data_size > MAX_DATA_SIZE
       THEN [w1 EXCEPT !.session.state = "SEND_BAD_PARAM_ERROR"]
       ELSE LET w2 == [w1 EXCEPT !.session.data_index = 0]
            IN IF hdr.data_size = 0
               THEN handle_enc_request_end(w2, o)
               ELSE [w2 EXCEPT !.session.state = "EXPECT_ENC_REQUEST_PAYLOAD"]

handle_enc_request_add_data(w, blk, o) ==
    LET s == w.session
        w1 == [decrypt_block(w) EXCEPT
                  !.session.data = DataPut(s.data, s.data_index \div AES_BLOCK_SIZE,
                                           DecryptedData(w, blk)),
                  !.session.data_index = @ + AES_BLOCK_SIZE]
    IN IF w1.session.data_index >= s.request_header.data_size
       THEN handle_enc_request_end(w1, o)
       ELSE w1

\* the value handle_input_block returns
AcceptsInput(st) == st \in ExpectStates

\* (variant: any authentication block is taken as correct)
AuthenticationAny(w, blk) == TRUE

\* the memcmp of EXPECT_AUTHENTICATION: the 15 bytes after the id against
\* generate_authentication(session, "CA", ...)
AuthenticationOk(w, blk) == generate_authentication(w, "CA") = blk.tag

\* the session after handle_input_block returned true for block blk
handle_input_block(w, blk, o) ==
    LET st == w.session.state
    IN CASE st = "EXPECT_REQUEST" ->
               IF blk.kind # "raw" \/ blk.b0 # ID_REQUEST
               THEN [w EXCEPT !.session.state = "SEND_BAD_MSG_ERROR"]
               ELSE IF ~w.g_secret_valid
               THEN [w EXCEPT !.session.state = "SEND_NO_SECRET_ERROR"]
               ELSE [w EXCEPT !.session.client_challenge = blk.body,
                              !.session.state = "SEND_CHALLENGE"]
         [] st = "EXPECT_AUTHENTICATION" ->
               IF blk.kind # "raw" \/ blk.b0 # ID_AUTHENTICATION
               THEN [w EXCEPT !.session.state = "SEND_BAD_MSG_ERROR"]
               ELSE IF ~AuthenticationOk(w, blk)
               THEN [w EXCEPT !.session.state = "SEND_AUTH_ERROR"]
               ELSE [w EXCEPT !.session.state = "SEND_AUTHENTICATION"]
         [] st = "EXPECT_ACKNOWLEDGE" ->
               IF blk.kind # "raw" \/ blk.b0 # ID_ACKNOWLEDGE
               THEN [w EXCEPT !.session.state = "SEND_BAD_MSG_ERROR"]
               ELSE generate_keys([w EXCEPT !.session.state = "EXPECT_ENC_REQUEST_HEADER"])
         [] st = "EXPECT_ENC_REQUEST_HEADER" -> handle_enc_request_start(w, blk, o)
         [] st = "EXPECT_ENC_REQUEST_PAYLOAD" -> handle_enc_request_add_data(w, blk, o)
         [] OTHER -> w

(***************************************************************************)
(* Memory and transport primitives                                         *)
(***************************************************************************)
\* free(ptr), ptr being NULL or the session (the memory is no longer the
\* program's: its contents are not part of the state any more)
free(w, ptr) ==
    IF ptr = NULL THEN w
    ELSE IF w.heap = "live"
    THEN Log([w EXCEPT !.heap = "freed", !.session = ZeroSession], [ev |-> "free"])
    ELSE [w EXCEPT !.heap_error = "double_free"]

\* a callback that dereferences its session pointer after free()
UseAfterFree(w, ptr) == ptr # NULL /\ w.heap # "live"

NoPcb == [st |-> "none", arg |-> NULL, sent |-> FALSE, recv |-> FALSE, err |-> FALSE]

ClosedPcb == [st |-> "closed", arg |-> NULL, sent |-> FALSE, recv |-> FALSE, err |-> FALSE]

\* (variant: tcp_close with the callbacks and their argument left in place)
server_tcp_close_keep_callbacks(w) ==
    Log([w EXCEPT !.pcb.st = "closed"], [ev |-> "close", nw |-> Len(w.written)])

\* tcp_arg/tcp_sent/tcp_recv/tcp_err(client_pcb, NULL); tcp_close(client_pcb)
server_tcp_close(w) ==
    Log([w EXCEPT !.pcb = ClosedPcb], [ev |-> "close", nw |-> Len(w.written)])

\* tcp_write(client_pcb, session->output_block, ...) returning ERR_OK
tcp_write_ok(w) ==
    [w EXCEPT !.unacked = @ + 1,
              !.written = Append(@, w.session.output_block),
              !.refused = IF @ = "waiting" THEN "written" ELSE @]

\* (variant: a block the transport refused is given up)
tcp_write_failed_drop(w, err) ==
    [(IF err = "ERR_MEM"
      THEN [w EXCEPT !.refused = IF @ = "written" THEN @ ELSE "waiting"]
      ELSE EnterDisconnect(w)) EXCEPT !.session.output_block_ready = FALSE]

\* send_while_able after tcp_write answered err, not ERR_OK: try again later
\* (ERR_MEM), or abandon the connection
tcp_write_failed(w, err) ==
    IF err = "ERR_MEM"
    THEN [w EXCEPT !.refused = IF @ = "written" THEN @ ELSE "waiting"]
    ELSE EnterDisconnect(w)

\* send_while_able.  The transport accepts the next `budget` blocks and
\* answers `fail` (ERR_MEM, or another error) to the write after them.
RECURSIVE send_while_able(_, _, _, _)
send_while_able(w, budget, fail, rng) ==
    IF ~w.session.output_block_ready /\ ~CanGenerate(w.session.state) THEN w
    ELSE LET w1 == IF w.session.output_block_ready THEN w
                   ELSE [generate_output_block(w, rng) EXCEPT
                            !.session.output_block_ready = TRUE]
         IN IF budget > 0
            THEN send_while_able(
                     [tcp_write_ok(w1) EXCEPT !.session.output_block_ready = FALSE],
                     budget - 1, fail, rng)
            ELSE tcp_write_failed(w1, fail)

\* what tcp_write can answer when it does not answer ERR_OK
WriteFailures == {"ERR_MEM", "ERR_CONN"}

\* values of get_rand_128
ServerChallenges == {"r1"}

\* blocks the send buffer has room for
Room(w) == IF w.unacked >= SndBufBlocks THEN 0 ELSE SndBufBlocks - w.unacked

\* blocks send_while_able would write if tcp_write refused none, counted up
\* to one more than the send buffer has room for
Burst(w, rng) ==
    Len(send_while_able(w, Room(w) + 1, "ERR_MEM", rng).written) - Len(w.written)

\* The ways the transport can treat the writes of one call of
\* send_while_able: it accepts `budget` blocks, as far as it has room, and
\* refuses the next with `fail`; or it accepts them all.
Treatments(w, rng) ==
    LET burst == Burst(w, rng)
        room == Room(w)
    IN {[budget |-> b, fail |-> f] :
            b \in 0..(IF room < burst THEN room ELSE burst - 1), f \in WriteFailures}
       \cup (IF burst <= room THEN {[budget |-> burst, fail |-> "ERR_MEM"]} ELSE {})

(***************************************************************************)
(* What the peer can send                                                  *)
(***************************************************************************)
ClientChallenges == {"c1"}

\* request headers a client may send; the hash it computes covers the
\* payload it means to send, whose blocks are all PayloadBlock
PayloadBlock == Raw(0, "p")
OtherPayloadBlock == Raw(0, "q")

Request(msg_type, data_size, param) ==
    Header(data_size, param, msg_type,
           Hash(data_size, param, msg_type,
                [j \in 1..NumBlocks(data_size) |-> PayloadBlock]))

ID_USER_HANDLER == ID_FIRST_USER_HANDLER

RequestHeaders ==
    { Request(ID_PICO_INFO_HANDLER, 0, 0),
      Request(ID_UPDATE_HANDLER, 20, 0),
      Request(ID_UPDATE_REBOOT_HANDLER, 0, 1),
      Request(ID_USER_HANDLER, 20, 1),
      [Request(ID_PICO_INFO_HANDLER, 0, 0) EXCEPT !.data_hash = WrongHash],
      Request(ID_PICO_INFO_HANDLER, MAX_DATA_SIZE + 1, 0) }

\* the blocks that may complete while the session is in its current state
InputBlocks(w) ==
    LET s == w.session
    IN CASE s.state = "EXPECT_REQUEST" ->
               {Clear(ID_REQUEST, c, NoTag) : c \in ClientChallenges}
                   \cup {Clear(ID_ACKNOWLEDGE, "zero", NoTag)}
         [] s.state = "EXPECT_AUTHENTICATION" ->
               {Clear(ID_AUTHENTICATION, "auth", t) :
                    t \in {Hmac(w.g_secret_hashed, s.client_challenge, s.server_challenge, "CA"),
                           Hmac(w.g_secret_hashed, s.client_challenge, s.server_challenge, "SX"),
                           Hmac(w.g_secret_hashed, s.client_challenge, "r0", "CA"),
                           Hmac("K0", s.client_challenge, s.server_challenge, "CA")}}
                   \cup {Clear(ID_REQUEST, "c1", NoTag)}
         [] s.state = "EXPECT_ACKNOWLEDGE" ->
               {Clear(ID_ACKNOWLEDGE, "zero", NoTag), Clear(ID_REQUEST, "c1", NoTag)}
         [] s.state = "EXPECT_ENC_REQUEST_HEADER" ->
               IF w.nreq >= MaxRequests THEN {}
               ELSE {Cipher(s.decrypt_key, s.decrypt_iv, h) : h \in RequestHeaders}
                        \cup {Cipher(NoTag, 0, ZeroHeader)}
         [] s.state = "EXPECT_ENC_REQUEST_PAYLOAD" ->
               {Cipher(s.decrypt_key, s.decrypt_iv, PayloadBlock),
                Cipher(s.decrypt_key, s.decrypt_iv, OtherPayloadBlock)}
         [] OTHER -> {ZeroBlock}

\* segment sizes (p->len)
RecvSizes == {8, 32}

\* what the handler does if the block that completes makes the session call
\* one (only a block of a request can)
Outcomes(w) ==
    IF w.session.state \in {"EXPECT_ENC_REQUEST_HEADER", "EXPECT_ENC_REQUEST_PAYLOAD"}
    THEN HandlerOutcomes
    ELSE {CHOOSE o \in HandlerOutcomes : TRUE}

(***************************************************************************)
(* The lwIP callbacks                                                      *)
(***************************************************************************)
\* session->data after the snprintf of server_accept and the three fixed bytes
GreetingData ==
    [blocks |-> [j \in 1..NumBlocks(GREETING_STRING_SIZE) |->
                    IF j = 1 THEN Raw(ID_GREETING, "greeting") ELSE Raw(0, "greeting")],
     fill |-> ZeroBlock]

\* server_accept up to session->state = SEND_GREETING
NewSession(w) ==
    [w EXCEPT
        !.heap = "live",
        !.pcb = [st |-> "open", arg |-> "session",
                 sent |-> TRUE, recv |-> TRUE, err |-> TRUE],
        !.session = [ZeroSession EXCEPT
                        !.data = GreetingData,
                        !.reply_header.data_size =
                            NumBlocks(GREETING_STRING_SIZE) * AES_BLOCK_SIZE,
                        !.state = "SEND_GREETING"]]

server_accept(w, budget, fail, rng) == send_while_able(NewSession(w), budget, fail, rng)

\* server_err: lwIP has already released the pcb
server_err(w) ==
    [free(w, w.pcb.arg) EXCEPT
        !.pcb = [st |-> "gone", arg |-> NULL, sent |-> FALSE, recv |-> FALSE, err |-> FALSE]]

\* server_recv called with p == NULL, or without a session
server_recv_closed(w) == server_tcp_close(free(w, w.pcb.arg))

\* The loop body of server_recv at the byte that fills the input block
\* (input_block_offset has been incremented to AES_BLOCK_SIZE or more):
\* handle_input_block, and the reset of input_block_offset when the block was
\* handled.  The history notes the block, the state it met and the secret in
\* force.
InputBlock(w, blk, o) ==
    LET handled == AcceptsInput(w.session.state)
        w1 == Log(w, [ev |-> "in", st |-> w.session.state, blk |-> blk,
                      handled |-> handled, valid |-> w.g_secret_valid,
                      key |-> w.g_secret_hashed, ngen |-> Len(w.generated)])
    IN IF handled
       THEN [handle_input_block(w1, blk, o) EXCEPT !.session.input_block_offset = 0]
       ELSE w1

\* n more bytes stored in the input block, none of them filling it
StoreBytes(w, n) == [w EXCEPT !.session.input_block_offset = @ + n]

\* server_recv after the loop: disconnect now, or send, and disconnect after
\* an overflow (the history notes, for a refused block, whether
\* send_while_able was reached and whether a generated block was waiting)
RecvFinish(w, input_buffer_overflow, budget, fail, rng) ==
    LET sends == w.session.state # "DISCONNECT"
        w0 == IF input_buffer_overflow
              THEN Log(w, [ev |-> "overflow", sends |-> sends,
                           pending |-> w.session.output_block_ready])
              ELSE w
    IN IF ~sends
       THEN server_tcp_close(free(w0, "session"))
       ELSE LET w1 == send_while_able(w0, budget, fail, rng)
            IN IF input_buffer_overflow THEN EnterDisconnect(w1) ELSE w1

\* true when the loop of server_recv stopped at a block that was refused
Overflowed(w) == w.session.input_block_offset >= AES_BLOCK_SIZE

\* a handler that resets the device does not return: the program, its heap
\* and its connections end there
reboot(w) ==
    [w EXCEPT !.rebooted = TRUE, !.heap = "none", !.session = ZeroSession,
              !.pcb = NoPcb, !.unacked = 0]

\* (variant: the session is ended without its stage-2 call)
server_sent_without_callback2(w, budget, fail, rng) ==
    LET w1 == send_while_able(w, budget, fail, rng)
    IN IF w1.session.state = "EXECUTE_CALLBACK2"
       THEN free(server_tcp_close(w1), "session")
       ELSE IF w1.session.state = "DISCONNECT"
       THEN server_tcp_close(free(w1, "session"))
       ELSE w1

\* server_sent with a session
server_sent(w, budget, fail, rng) ==
    LET w1 == send_while_able(w, budget, fail, rng)
        hdr == w1.session.request_header
        handler_id == U8(hdr.msg_type - ID_FIRST_HANDLER)
        fn == IF handler_id < NUM_HANDLERS
              THEN w1.g_handler_table[handler_id].callback2 ELSE NULL
    IN IF w1.session.state = "EXECUTE_CALLBACK2"
       THEN LET w2 == server_tcp_close(w1)
            IN IF fn = NULL THEN free(w2, "session")
               ELSE LET w3 == Log(w2, [ev |-> "cb2", fn |-> fn,
                                       ngen |-> Len(w2.generated),
                                       nw |-> Len(w2.written),
                                       msg_type |-> hdr.msg_type,
                                       data |-> w2.session.data,
                                       size |-> hdr.data_size,
                                       param |-> hdr.parameter_or_result])
                    IN IF fn \in NeverReturns
                       THEN reboot(w3)
                       ELSE free(w3, "session")
       ELSE IF w1.session.state = "DISCONNECT"
       THEN server_tcp_close(free(w1, "session"))
       ELSE w1

(***************************************************************************)
(* Actions                                                                 *)
(***************************************************************************)
Running == heap_error = "none" /\ ~rebooted

\* lwIP still delivers events for a pcb that tcp_close was called on, to the
\* callbacks that are registered
PcbAlive == pcb.st \in {"open", "closed"}

\* the connection manager and its surroundings before wifi_settings_init:
\* g_wifi_state is zeroed, the driver is not started
Slots == 1..MAX_NUM_SSIDS

ZeroWifiState ==
    [cstate |-> "UNINITIALISED",
     selected_ssid_index |-> 0,
     ssid_scan_info |-> [i \in 0..MAX_NUM_SSIDS |-> "NOT_FOUND"],
     scan_holdoff_time |-> 0,
     connect_timeout_time |-> 0,
     next_time |-> 0,
     context |-> NULL]

\* the driver: is a scan going on; the slot cyw43_wifi_join was last called
\* for (0: none, or cyw43_wifi_leave was called since); what
\* cyw43_wifi_link_status, netif_is_link_up and netif_ip4_addr report
DriverDown ==
    [scan_active |-> FALSE, joined |-> 0,
     link_status |-> "CYW43_LINK_DOWN", link_up |-> FALSE, ip |-> FALSE]

NoScans == [op |-> "none", init_time |-> 0, last_scan |-> -1, join_time |-> -1,
            joins |-> [i \in Slots |-> 0]]

\* a settings file without ssid<N> and bssid<N>
NoSettings == [i \in Slots |-> [ssid |-> NULL, bssid |-> NULL]]

ConnectReset ==
    /\ g_wifi_state = ZeroWifiState
    /\ cyw43_state = DriverDown
    /\ current_time = 0
    /\ scan_history = NoScans

\* the Flash of the test bench before a save: reset_flash() fills it with 0xcc
reset_flash == [i \in 1..WIFI_SETTINGS_FILE_SIZE |-> 204]

\* the region of a device that never saved a file: erased
erased_flash == [i \in 1..WIFI_SETTINGS_FILE_SIZE |-> 255]

NoSave == [pc |-> "idle", scope |-> "none", file |-> <<>>, file_size |-> 0,
           offset |-> 0, rc |-> PICO_OK, flash_program_error_at |-> NoError,
           before |-> <<>>]

NotRead == [pc |-> "none", content |-> <<>>]

NoLookup == [pc |-> "idle", file |-> <<>>, key |-> <<>>, capacity |-> 0,
             found |-> FALSE, value |-> <<>>, value_size |-> 0]

NoFile == [pc |-> "idle", contents |-> erased_flash, before |-> erased_flash,
           op |-> "none", key |-> <<>>, value |-> <<>>, rc |-> FALSE,
           writes |-> {}, reads |-> {}, search_index |-> 0]

\* the Flash of a running device: the program, the reusable region with an
\* image staged in it, and the settings file in the last sector
FlashAtBoot ==
    [a \in 0..(PICO_FLASH_SIZE_BYTES - 1) |->
        IF a < ProgramSectors * FLASH_SECTOR_SIZE THEN 1
        ELSE IF a < PICO_FLASH_SIZE_BYTES - FLASH_SECTOR_SIZE THEN 2
        ELSE 3]

NoRange == [start_address |-> 0, size |-> 0]

NoRequest == [pc |-> "idle", handler |-> "none", copy_from |-> NoRange,
              copy_to |-> NoRange, hash |-> <<>>, well_formed |-> TRUE,
              platform |-> [lock_out |-> TRUE, rom_funcs |-> TRUE,
                            execute |-> TRUE],
              result |-> "PICO_OK", touched |-> {}]

\* no datagram has come
NoDatagram == [pc |-> "idle", has_payload |-> FALSE, payload |-> <<>>,
               addr |-> "none", port |-> 0, alloc_ok |-> TRUE, sent |-> <<>>]

StoreReset ==
    /\ responder = NoDatagram
    /\ live_sessions = 0
    /\ flash_fake = erased_flash
    /\ save = NoSave
    /\ flash_ops = <<>>
    /\ reader_saw = NotRead
    /\ lookup = NoLookup
    /\ fh = NoFile
    /\ flash_dev = FlashAtBoot
    /\ request = NoRequest

Init ==
    /\ ConnectReset
    /\ StoreReset
    /\ key_value_items = NoSettings
    /\ session = ZeroSession
    /\ heap = "none"
    /\ heap_error = "none"
    /\ pcb = NoPcb
    /\ unacked = 0
    /\ g_handler_table = InitialHandlerTable
    /\ g_secret_valid \in BOOLEAN
    /\ g_secret_hashed = IF g_secret_valid THEN "K1" ELSE "zero"
    /\ rebooted = FALSE
    /\ trace = <<>>
    /\ written = <<>>
    /\ refused = "no"
    /\ generated = <<>>
    /\ oob_store = FALSE
    /\ nreq = 0
    /\ reg = NoCall

\* a client connects
Accept ==
    /\ Running
    /\ pcb.st = "none"
    /\ \E rng \in ServerChallenges :
         \E t \in Treatments(NewSession(World), rng) :
           Commit(server_accept(World, t.budget, t.fail, rng))

\* the peer closed the connection: server_recv with p == NULL
RecvClose ==
    /\ Running
    /\ PcbAlive /\ pcb.recv
    /\ Commit(server_recv_closed(World))

\* server_recv from the end of its loop, under each treatment of its writes
\* (it writes nothing when the session is in DISCONNECT)
Finish(w, input_buffer_overflow, rng) ==
    \E t \in (IF w.session.state = "DISCONNECT"
              THEN {[budget |-> 0, fail |-> "ERR_MEM"]}
              ELSE Treatments(w, rng)) :
        Commit(RecvFinish(w, input_buffer_overflow, t.budget, t.fail, rng))

\* a segment of n bytes arrives: server_recv with p != NULL
RecvData ==
    /\ Running
    /\ PcbAlive /\ pcb.recv
    /\ \E n \in RecvSizes, rng \in ServerChallenges :
         LET w == World
             off == w.session.input_block_offset
         IN IF w.pcb.arg = NULL THEN Commit(server_recv_closed(w))
            ELSE IF UseAfterFree(w, w.pcb.arg)
            THEN Commit([w EXCEPT !.heap_error = "use_after_free"])
            ELSE IF off >= AES_BLOCK_SIZE
            THEN \* the first byte is stored at input_block[off], outside the
                 \* array: the offset afterwards is off + 1, or whatever the
                 \* stored byte made of it (input_block_offset is the next field)
                 \E after \in {off + 1, 1} :
                    LET w0 == [w EXCEPT !.oob_store = TRUE,
                                        !.session.input_block_offset = after]
                    IN IF after >= AES_BLOCK_SIZE
                       THEN Finish(InputBlock(w0, ZeroBlock,
                                              CHOOSE o \in HandlerOutcomes : TRUE),
                                   TRUE, rng)
                       ELSE Finish(w0, FALSE, rng)
            ELSE IF off + n < AES_BLOCK_SIZE
            THEN Finish(StoreBytes(w, n), FALSE, rng)
            ELSE \E b1 \in InputBlocks(w), o1 \in Outcomes(w) :
                   LET full1 == [w EXCEPT !.session.input_block_offset = AES_BLOCK_SIZE]
                       w1 == InputBlock(full1, b1, o1)
                       n1 == n - (AES_BLOCK_SIZE - off)
                   IN IF w1.session.input_block_offset >= AES_BLOCK_SIZE
                      THEN Finish(w1, TRUE, rng)
                      ELSE IF n1 < AES_BLOCK_SIZE
                      THEN Finish(StoreBytes(w1, n1), FALSE, rng)
                      ELSE \E b2 \in InputBlocks(w1), o2 \in Outcomes(w1) :
                             LET full2 == [w1 EXCEPT !.session.input_block_offset = AES_BLOCK_SIZE]
                                 w2 == InputBlock(full2, b2, o2)
                                 n2 == n1 - AES_BLOCK_SIZE
                             IN IF w2.session.input_block_offset >= AES_BLOCK_SIZE
                                THEN Finish(w2, TRUE, rng)
                                ELSE Finish(StoreBytes(w2, n2), FALSE, rng)

\* the peer acknowledged k blocks: server_sent
Sent ==
    /\ Running
    /\ PcbAlive /\ pcb.sent
    /\ unacked > 0
    /\ \E k \in 1..unacked, rng \in ServerChallenges :
         LET w == [World EXCEPT !.unacked = @ - k]
         IN IF w.pcb.arg = NULL THEN Commit(server_tcp_close(w))
            ELSE IF UseAfterFree(w, w.pcb.arg)
            THEN Commit([w EXCEPT !.heap_error = "use_after_free"])
            ELSE \E t \in Treatments(w, rng) :
                   Commit(server_sent(w, t.budget, t.fail, rng))

\* the connection failed or was reset: server_err
Err ==
    /\ Running
    /\ PcbAlive /\ pcb.err
    /\ Commit(server_err(World))

\* the application registers, replaces or removes a two-stage user handler
\* (followed until the session has ended) and reads the return value
SetHandler ==
    /\ Running
    /\ pcb.st \in {"none", "open"}
    /\ \E callbacks \in {<<"user_callback1", "user_callback2">>, <<NULL, NULL>>} :
         Commit([wifi_settings_remote_set_two_stage_handler(
                     World, ID_USER_HANDLER, callbacks[1], callbacks[2])
                     EXCEPT !.reg = NoCall])

Next == Accept \/ RecvClose \/ RecvData \/ Sent \/ Err \/ SetHandler

Spec == Init /\ [][Next]_vars

(***************************************************************************)
(* The handler registry on its own: the application calls the two          *)
(* registration functions with any msg_type and keeps the return value     *)
(***************************************************************************)
\* msg_type values: around both ends of the table, and of the user range
MsgTypes == {0, ID_FIRST_HANDLER - 1, ID_FIRST_HANDLER, ID_FIRST_USER_HANDLER - 1,
             ID_FIRST_USER_HANDLER, ID_LAST_USER_HANDLER, ID_LAST_USER_HANDLER + 1, 255}

RegisterHandler ==
    \E msg_type \in MsgTypes, callback \in {"user_callback1", NULL} :
        Commit(wifi_settings_remote_set_handler(World, msg_type, callback))

RegisterTwoStageHandler ==
    \E msg_type \in MsgTypes,
       callbacks \in {<<"user_callback1", "user_callback2">>, <<NULL, "user_callback2">>} :
        Commit(wifi_settings_remote_set_two_stage_handler(
                   World, msg_type, callbacks[1], callbacks[2]))

NextRegistry == RegisterHandler \/ RegisterTwoStageHandler

SpecRegistry == Init /\ [][NextRegistry]_vars

(***************************************************************************)
(* The connection manager (wifi_settings_connect.c): a state machine that  *)
(* a periodic worker steps, the calls of the application, and the driver   *)
(***************************************************************************)
\* the manager, the driver and the history as one value
Manager == [g |-> g_wifi_state, hw |-> cyw43_state, h |-> scan_history]

CommitManager(m) ==
    /\ g_wifi_state' = m.g
    /\ cyw43_state' = m.hw
    /\ scan_history' = m.h

remotevars == <<session, heap, heap_error, pcb, unacked, g_handler_table,
                g_secret_valid, g_secret_hashed, rebooted, trace, written,
                refused, generated, oob_store, nreq, reg>>

make_timeout_time_ms(ms) == current_time + ms

time_reached(t) == t <= current_time

\* wifi_settings_get_value_for_key finds ssid<i>, bssid<i>
HasSsid(i) == key_value_items[i].ssid # NULL

HasBssid(i) == key_value_items[i].bssid # NULL

wifi_settings_has_no_wifi_details == ~HasSsid(1) /\ ~HasBssid(1)

\* the driver calls
cyw43_wifi_leave(m) ==
    [m EXCEPT !.hw.joined = 0, !.hw.link_status = "CYW43_LINK_DOWN",
              !.hw.link_up = FALSE, !.hw.ip = FALSE]

cyw43_wifi_scan(m) ==
    [m EXCEPT !.hw.scan_active = TRUE,
              !.h.last_scan = current_time,
              !.h.joins = [i \in Slots |-> 0]]

cyw43_wifi_join(m, i) ==
    [m EXCEPT !.hw.joined = i, !.hw.link_status = "CYW43_LINK_JOIN",
              !.h.joins[i] = IF @ < 2 THEN @ + 1 ELSE @]

\* the calls of the application
wifi_settings_init(m, hw_ok) ==
    IF m.g.cstate # "UNINITIALISED" THEN m
    ELSE IF ~hw_ok THEN [m EXCEPT !.g.cstate = "INITIALISATION_ERROR"]
    ELSE [m EXCEPT !.g.cstate = "DISCONNECTED",
                   !.g.context = "async_context",
                   !.g.connect_timeout_time = make_timeout_time_ms(CONNECT_TIMEOUT_TIME_MS),
                   !.g.scan_holdoff_time = make_timeout_time_ms(INITIAL_SETUP_TIME_MS),
                   !.g.next_time = make_timeout_time_ms(INITIAL_SETUP_TIME_MS),
                   !.h = [NoScans EXCEPT !.init_time = current_time]]

wifi_settings_deinit(m) ==
    IF m.g.context # NULL
    THEN [m EXCEPT !.g = ZeroWifiState, !.hw = DriverDown, !.h = NoScans]
    ELSE [m EXCEPT !.g = ZeroWifiState, !.h = NoScans]

wifi_settings_connect(m) ==
    IF m.g.cstate = "DISCONNECTED" THEN [m EXCEPT !.g.cstate = "TRY_TO_CONNECT"]
    ELSE m

\* (variant: nothing is done unless a connection is there or on its way)
wifi_settings_disconnect_if_connecting(m) ==
    IF m.g.cstate \notin {"CONNECTING", "CONNECTED_IP"} THEN m
    ELSE [cyw43_wifi_leave(m) EXCEPT !.g.cstate = "DISCONNECTED",
                                     !.g.selected_ssid_index = 0]

wifi_settings_disconnect(m) ==
    IF m.g.cstate = "UNINITIALISED" THEN m
    ELSE [cyw43_wifi_leave(m) EXCEPT !.g.cstate = "DISCONNECTED",
                                     !.g.selected_ssid_index = 0]

\* (variant: a matching SSID is enough for a slot that names a BSSID)
wifi_scan_callback_ssid_first(m, result) ==
    LET found == {i \in Slots : \/ HasBssid(i) /\ key_value_items[i].bssid = result.bssid
                                \/ HasSsid(i) /\ key_value_items[i].ssid = result.ssid}
    IN  [m EXCEPT !.g.ssid_scan_info =
            [i \in 0..MAX_NUM_SSIDS |-> IF i \in found THEN "FOUND" ELSE @[i]]]

\* the driver's scan callback: one result of the scan in progress
wifi_scan_callback(m, result) ==
    LET by_bssid == {i \in Slots : HasBssid(i) /\ key_value_items[i].bssid = result.bssid}
        by_ssid == {i \in Slots : ~HasBssid(i) /\ HasSsid(i)
                                   /\ key_value_items[i].ssid = result.ssid}
        found == IF by_bssid # {} THEN by_bssid ELSE by_ssid
    IN  [m EXCEPT !.g.ssid_scan_info =
            [i \in 0..MAX_NUM_SSIDS |-> IF i \in found THEN "FOUND" ELSE @[i]]]

FoundSlots(m) == {i \in Slots : m.g.ssid_scan_info[i] = "FOUND"}

\* (variant: the search runs from the last slot down)
HighestSlot(S) == CHOOSE i \in S : \A j \in S : i >= j

LowestSlot(S) == CHOOSE i \in S : \A j \in S : i <= j

\* the join of slot i, by BSSID if there is one, else by SSID
JoinSlot(m, i) ==
    [cyw43_wifi_join(m, i) EXCEPT
        !.g.ssid_scan_info[i] = "ATTEMPT",
        !.g.selected_ssid_index = i,
        !.g.connect_timeout_time = make_timeout_time_ms(CONNECT_TIMEOUT_TIME_MS),
        !.g.cstate = "CONNECTING",
        !.h.join_time = current_time]

\* (variant: the record is not read again before the join)
connect_to_slot_unchecked(m, i) == JoinSlot(m, i)

\* the record of slot i is read again; the join goes ahead if it is there
connect_to_slot(m, i) ==
    IF ~HasSsid(i) /\ ~HasBssid(i)
    THEN [m EXCEPT !.g.ssid_scan_info[i] = "ATTEMPT",
                   !.g.selected_ssid_index = 0,
                   !.g.cstate = "TRY_TO_CONNECT"]
    ELSE JoinSlot(m, i)

\* (variant: the slot stays selected when nothing is left to try)
begin_connecting_keep_selected(m) ==
    IF FoundSlots(m) = {}
    THEN [m EXCEPT !.g.scan_holdoff_time = make_timeout_time_ms(REPEAT_SCAN_TIME_MS),
                   !.g.cstate = "TRY_TO_CONNECT"]
    ELSE connect_to_slot(m, LowestSlot(FoundSlots(m)))

\* what follows the end of a scan, and every failed attempt
begin_connecting(m) ==
    IF FoundSlots(m) = {}
    THEN [m EXCEPT !.g.scan_holdoff_time = make_timeout_time_ms(REPEAT_SCAN_TIME_MS),
                   !.g.selected_ssid_index = 0,
                   !.g.cstate = "TRY_TO_CONNECT"]
    ELSE connect_to_slot(m, LowestSlot(FoundSlots(m)))

\* (variant: a failed slot is offered again)
Mark_found_again(m, status, cstate) ==
    [m EXCEPT !.g.ssid_scan_info[m.g.selected_ssid_index] =
                  IF cstate = "SCANNING" THEN "FOUND" ELSE status,
              !.g.cstate = cstate]

Mark(m, status, cstate) ==
    [m EXCEPT !.g.ssid_scan_info[m.g.selected_ssid_index] = status,
              !.g.cstate = cstate]

\* (variant: the attempt ends only after its deadline has passed)
connect_timed_out_late(m) == m.g.connect_timeout_time < current_time

\* the deadline armed at the join has come
connect_timed_out(m) == time_reached(m.g.connect_timeout_time)

\* one state of the machine, as the periodic worker steps it
StateMachine(m) ==
    CASE m.g.cstate = "TRY_TO_CONNECT" ->
            IF wifi_settings_has_no_wifi_details
            THEN [cyw43_wifi_leave(m) EXCEPT !.g.cstate = "STORAGE_EMPTY_ERROR"]
            ELSE IF ~time_reached(m.g.scan_holdoff_time) THEN m
            ELSE [cyw43_wifi_scan(cyw43_wifi_leave(m)) EXCEPT
                     !.g.ssid_scan_info = [i \in 0..MAX_NUM_SSIDS |-> "NOT_FOUND"],
                     !.g.cstate = "SCANNING"]
      [] m.g.cstate = "STORAGE_EMPTY_ERROR" ->
            IF wifi_settings_has_no_wifi_details THEN m
            ELSE [m EXCEPT !.g.cstate = "TRY_TO_CONNECT"]
      [] m.g.cstate = "SCANNING" ->
            IF m.hw.scan_active THEN m
            ELSE begin_connecting(cyw43_wifi_leave(m))
      [] m.g.cstate = "CONNECTING" ->
            IF m.hw.link_status = "CYW43_LINK_JOIN"
            THEN IF m.hw.link_up /\ m.hw.ip THEN Mark(m, "SUCCESS", "CONNECTED_IP")
                 ELSE IF connect_timed_out(m)
                      THEN Mark(m, "TIMEOUT", "SCANNING")
                      ELSE m
            ELSE IF m.hw.link_status = "CYW43_LINK_BADAUTH"
                 THEN Mark(m, "BADAUTH", "SCANNING")
                 ELSE Mark(m, "FAILED", "SCANNING")
      [] m.g.cstate = "CONNECTED_IP" ->
            IF m.hw.link_up /\ m.hw.ip THEN m
            ELSE Mark(m, "LOST", "TRY_TO_CONNECT")
      [] OTHER -> m

wifi_settings_periodic_callback(m) ==
    [StateMachine(m) EXCEPT !.g.next_time = make_timeout_time_ms(PERIODIC_TIME_MS)]

\* the settings files the application may hold (ssid<N+1> needs ssid<N>)
Hotspot(ssid, bssid) == [ssid |-> ssid, bssid |-> bssid]

SettingsFiles ==
    { NoSettings,
      [i \in Slots |-> IF i = 1 THEN Hotspot("A", NULL) ELSE Hotspot(NULL, NULL)],
      [i \in Slots |-> IF i = 2 THEN Hotspot("B", NULL) ELSE Hotspot("A", NULL)],
      [i \in Slots |-> CASE i = 1 -> Hotspot(NULL, "m1")
                         [] i = 2 -> Hotspot("B", "m2")
                         [] OTHER -> Hotspot("B", NULL)] }

\* what a scan may find
ScanResults == [ssid : {"A", "B", "X"}, bssid : {"m1", "m2", "m9"}]

\* what the driver may report of a join
LinkReports ==
    { [link_status |-> "CYW43_LINK_JOIN", link_up |-> FALSE, ip |-> FALSE],
      [link_status |-> "CYW43_LINK_JOIN", link_up |-> TRUE, ip |-> FALSE],
      [link_status |-> "CYW43_LINK_JOIN", link_up |-> TRUE, ip |-> TRUE],
      [link_status |-> "CYW43_LINK_DOWN", link_up |-> FALSE, ip |-> FALSE],
      [link_status |-> "CYW43_LINK_BADAUTH", link_up |-> FALSE, ip |-> FALSE] }

\* a step of the manager or the driver: the rest of the program stands still
Step(m, op) ==
    /\ CommitManager([m EXCEPT !.h.op = op])
    /\ UNCHANGED <<key_value_items, current_time, remotevars, storevars>>

Initialise == \E hw_ok \in BOOLEAN : Step(wifi_settings_init(Manager, hw_ok), "init")

Deinitialise == Step(wifi_settings_deinit(Manager), "deinit")

Connect == Step(wifi_settings_connect(Manager), "connect")

Disconnect == Step(wifi_settings_disconnect(Manager), "disconnect")

\* the periodic worker runs when its time has come
Tick ==
    /\ g_wifi_state.context # NULL
    /\ time_reached(g_wifi_state.next_time)
    /\ Step(wifi_settings_periodic_callback(Manager), "tick")

ScanResult ==
    /\ cyw43_state.scan_active
    /\ \E result \in ScanResults : Step(wifi_scan_callback(Manager, result), "scan_result")

ScanDone ==
    /\ cyw43_state.scan_active
    /\ Step([Manager EXCEPT !.hw.scan_active = FALSE], "scan_done")

LinkChange ==
    /\ cyw43_state.joined # 0
    /\ \E r \in LinkReports :
          /\ r.link_status # cyw43_state.link_status \/ r.link_up # cyw43_state.link_up
                \/ r.ip # cyw43_state.ip
          /\ Step([Manager EXCEPT !.hw.link_status = r.link_status,
                                  !.hw.link_up = r.link_up,
                                  !.hw.ip = r.ip], "link")

\* the settings file is rewritten
RewriteSettings ==
    /\ \E f \in SettingsFiles \ {key_value_items} : key_value_items' = f
    /\ scan_history' = [scan_history EXCEPT !.op = "settings"]
    /\ UNCHANGED <<g_wifi_state, cyw43_state, current_time, remotevars, storevars>>

AdvanceTime ==
    /\ current_time < MaxTime
    /\ current_time' = current_time + 1
    /\ scan_history' = [scan_history EXCEPT !.op = "time"]
    /\ UNCHANGED <<g_wifi_state, cyw43_state, key_value_items, remotevars, storevars>>

NextConnect ==
    \/ Initialise
    \/ Deinitialise
    \/ Connect
    \/ Disconnect
    \/ Tick
    \/ ScanResult
    \/ ScanDone
    \/ LinkChange
    \/ RewriteSettings
    \/ AdvanceTime

\* the remote service is set up and at rest
InitConnect == Init /\ g_secret_valid

SpecConnect == InitConnect /\ [][NextConnect]_vars

(***************************************************************************)
(* Reading the history                                                     *)
(***************************************************************************)
Events(kind) == {i \in DOMAIN trace : trace[i].ev = kind}

HandlerCalls == Events("cb1") \cup Events("cb2")

IsPrefix(s, t) == Len(s) <= Len(t) /\ \A i \in DOMAIN s : s[i] = t[i]

\* an encrypted block holding a header, or holding data
IsEncHeader(b) == b.kind = "enc" /\ b.pt.kind = "hdr"

IsEncData(b) == b.kind = "enc" /\ b.pt.kind = "raw"

\* the latest event of one kind before position i (0: none)
LastBefore(kind, i) ==
    LET before == {j \in Events(kind) : j < i}
    IN IF before = {} THEN 0 ELSE CHOOSE j \in before : \A k \in before : k <= j

ConnectionOver == pcb.st \in {"closed", "gone"}

(***************************************************************************)
(* C1                                                                      *)
(***************************************************************************)
\* C1: whenever a stage-2 callback is invoked, the encrypted reply header of
\* its request (the block generated last) has been accepted by tcp_write; and
\* every reply payload block written follows, within the payload length, a
\* written reply header.  The first part fails: server_sent calls callback2
\* in EXECUTE_CALLBACK2 even when tcp_write has just answered ERR_MEM again
\* for the header.
C1_HeaderAcceptedFirst ==
    /\ \A i \in Events("cb2") :
         /\ trace[i].ngen <= trace[i].nw
         /\ IsEncHeader(generated[trace[i].ngen])
         /\ written[trace[i].ngen] = generated[trace[i].ngen]
    /\ \A j \in DOMAIN written :
         IsEncData(written[j]) =>
             \E k \in 1..(j - 1) :
                 /\ IsEncHeader(written[k])
                 /\ j - k <= NumBlocks(written[k].pt.data_size)
                 /\ \A m \in (k + 1)..(j - 1) : IsEncData(written[m])

(***************************************************************************)
(* C2                                                                      *)
(***************************************************************************)
\* the server challenge sent on this session: the body of a generated
\* CHALLENGE block
ChallengesSent ==
    {generated[g].body : g \in {h \in DOMAIN generated :
                                   /\ generated[h].kind = "raw"
                                   /\ generated[h].b0 = ID_CHALLENGE}}

\* positions a < b < c before i of a REQUEST received with a secret
\* configured, an AUTHENTICATION whose tag is the "CA" HMAC, under the secret
\* in force, of that REQUEST's challenge and a challenge this server sent, and
\* an ACKNOWLEDGE
Authenticated(i) ==
    \E a \in 1..(i - 1) :
        /\ trace[a].ev = "in" /\ trace[a].st = "EXPECT_REQUEST"
        /\ trace[a].blk.kind = "raw" /\ trace[a].blk.b0 = ID_REQUEST
        /\ trace[a].valid
        /\ \E b \in (a + 1)..(i - 1) :
             /\ trace[b].ev = "in" /\ trace[b].st = "EXPECT_AUTHENTICATION"
             /\ trace[b].blk.kind = "raw" /\ trace[b].blk.b0 = ID_AUTHENTICATION
             /\ \E sc \in ChallengesSent :
                    trace[b].blk.tag = Hmac(trace[b].key, trace[a].blk.body, sc, "CA")
             /\ \E c \in (b + 1)..(i - 1) :
                  /\ trace[c].ev = "in" /\ trace[c].st = "EXPECT_ACKNOWLEDGE"
                  /\ trace[c].blk.kind = "raw" /\ trace[c].blk.b0 = ID_ACKNOWLEDGE

\* C2: every call of a stage-1 or stage-2 handler comes after a REQUEST block
\* received with a secret configured, then an AUTHENTICATION block with the
\* correct "CA" tag, then an ACKNOWLEDGE block, on the session.
C2_HandlersOnlyAfterHandshake == \A i \in HandlerCalls : Authenticated(i)

\* both kinds of handler have been called on an authenticated session
C2_Witness ==
    /\ Events("cb1") # {} /\ Events("cb2") # {}
    /\ \A i \in HandlerCalls : Authenticated(i)

(***************************************************************************)
(* C3                                                                      *)
(***************************************************************************)
\* the hash a request header should carry for the data received with it
HashMismatch(i) ==
    /\ trace[i].ev = "req_end"
    /\ Hash(trace[i].hdr.data_size, trace[i].hdr.parameter_or_result,
            trace[i].hdr.msg_type, trace[i].covered) # trace[i].hdr.data_hash

Mismatches == {i \in DOMAIN trace : HashMismatch(i)}

IsCorruptError(b) == IsEncHeader(b) /\ b.pt.msg_type = ID_CORRUPT_ERROR

\* a handler call belongs to a request whose data hash matched, and nothing
\* is handled after a mismatch
HandlerOnlyIfHashOk ==
    /\ \A i \in HandlerCalls :
         LET r == LastBefore("req_end", i)
         IN r # 0 /\ ~HashMismatch(r)
    /\ \A r \in Mismatches : \A i \in DOMAIN trace :
         i > r => trace[i].ev \notin {"cb1", "cb2", "req_end"}
                  /\ (trace[i].ev = "in" => ~trace[i].handled)

C4_NothingNewAfterDisconnect ==
    /\ \A d \in Events("disconnect") :
         /\ trace[d].ngen <= trace[d].nw + 1
         /\ Len(generated) = trace[d].ngen
         /\ Len(written) <= trace[d].ngen
         /\ \A j \in (trace[d].nw + 1)..Len(written) : written[j] = generated[j]
    /\ \A c \in Events("close") : Len(written) = trace[c].nw

\* a block generated before DISCONNECT was written after it, and the
\* connection was then closed
C4_Witness ==
    /\ \E d \in Events("disconnect") :
         /\ trace[d].nw < trace[d].ngen
         /\ Len(written) = trace[d].ngen
    /\ Events("close") # {}

HandshakeStates == {"EXPECT_REQUEST", "EXPECT_AUTHENTICATION", "EXPECT_ACKNOWLEDGE"}

\* the client challenge in force at position i: the body of the REQUEST
\* received last
ClientChallengeAt(i) ==
    LET reqs == {a \in 1..(i - 1) : /\ trace[a].ev = "in"
                                    /\ trace[a].st = "EXPECT_REQUEST"}
    IN IF reqs = {} THEN "zero"
       ELSE trace[CHOOSE a \in reqs : \A b \in reqs : b <= a].blk.body

\* the error a handshake block received at position i calls for (0: none)
FailureId(i) ==
    LET e == trace[i]
    IN IF e.ev # "in" \/ e.st \notin HandshakeStates THEN 0
       ELSE IF e.st = "EXPECT_REQUEST"
       THEN IF e.blk.b0 # ID_REQUEST THEN ID_BAD_MSG_ERROR
            ELSE IF ~e.valid THEN ID_NO_SECRET_ERROR ELSE 0
       ELSE IF e.st = "EXPECT_AUTHENTICATION"
       THEN IF e.blk.b0 # ID_AUTHENTICATION THEN ID_BAD_MSG_ERROR
            ELSE IF \A sc \in ChallengesSent :
                        e.blk.tag # Hmac(e.key, ClientChallengeAt(i), sc, "CA")
            THEN ID_AUTH_ERROR ELSE 0
       ELSE IF e.blk.b0 # ID_ACKNOWLEDGE THEN ID_BAD_MSG_ERROR ELSE 0

HandshakeFailures == {i \in DOMAIN trace : FailureId(i) # 0}

IsClearError(b) ==
    b.kind = "raw" /\ b.b0 \in {ID_BAD_MSG_ERROR, ID_NO_SECRET_ERROR, ID_AUTH_ERROR}

C7_RefusedBlockStillSends ==
    /\ \A i \in Events("in") :
         trace[i].st \notin ExpectStates => ~trace[i].handled
    /\ \A e \in Events("overflow") : trace[e].pending => trace[e].sends
    /\ (Events("overflow") # {} /\ heap = "live") => session.state = "DISCONNECT"

(***************************************************************************)
(* C8                                                                      *)
(***************************************************************************)
\* C8: the session allocated on accept is never freed twice and never used
\* by a callback after it was freed, and it is freed, once, whenever the
\* connection is closed or gone, whoever ended it: the session itself, the
\* peer, or the transport's error callback.
C8_SessionFreedExactlyOnce ==
    /\ heap_error = "none"
    /\ Cardinality(Events("free")) <= 1
    /\ heap = "freed" <=> Events("free") # {}
    /\ heap = "none" <=> pcb.st = "none"
    /\ ConnectionOver => heap = "freed"
    /\ heap = "freed" => ConnectionOver

\* the session was freed after its stage-2 handler returned
C8_Witness ==
    /\ heap = "freed" /\ heap_error = "none"
    /\ pcb.st = "closed"
    /\ Events("cb2") # {} /\ ~rebooted

(***************************************************************************)
(* C9                                                                      *)
(***************************************************************************)
\* the reply to the stage-1 call at position c of the history, as generated:
\* an encrypted ID_OK header with the call's out_size and result, and the
\* blocks of the call's buffer that hold out_size bytes, in one CBC chain
ReplyGenerated(c) ==
    LET e == trace[c]
        n == NumBlocks(e.out_size)
        h == e.ngen + 1
    IN /\ Len(generated) = h + n
       /\ IsEncHeader(generated[h])
       /\ generated[h].pt.msg_type = ID_OK
       /\ generated[h].pt.data_size = e.out_size
       /\ generated[h].pt.parameter_or_result = e.result
       /\ generated[h].pt.data_hash =
              Hash(e.out_size, e.result, ID_OK, DataPrefix(e.data, e.out_size))
       /\ \A k \in 1..n :
            /\ IsEncData(generated[h + k])
            /\ generated[h + k].pt = DataAt(e.data, k - 1)
            /\ generated[h + k].key = generated[h].key
            /\ generated[h + k].iv = generated[h].iv + k

\* C9: when the session is back in EXPECT_ENC_REQUEST_HEADER after a request
\* (handled by a stage-1 handler, no stage-2 registered), what it generated
\* for that request is one encrypted reply header with data_size = out_size
\* and parameter_or_result = the handler's return value, then exactly
\* ceil(out_size/16) encrypted payload blocks; and all of it has been written
\* in that order unless the last block waits.  (Handlers keep to their
\* contract: out_size <= MAX_DATA_SIZE.)
C9_SingleStageReply ==
    (heap = "live" /\ session.state = "EXPECT_ENC_REQUEST_HEADER" /\ nreq > 0) =>
        /\ Events("cb1") # {}
        /\ ReplyGenerated(LastBefore("cb1", Len(trace) + 1))
        /\ IsPrefix(written, generated)
        /\ Len(generated) <= Len(written) + 1

\* a request was answered with a header and two payload blocks, all written,
\* and a further request on the connection was then handled by its handler
C9_Witness ==
    \E c1, c2 \in Events("cb1") :
        /\ c1 < c2
        /\ trace[c1].out_size > AES_BLOCK_SIZE
        /\ \E r \in Events("req_end") : c1 < r /\ r < c2 /\ ~HashMismatch(r)
        /\ heap = "live" /\ session.state = "EXPECT_ENC_REQUEST_HEADER"
        /\ written = generated

(***************************************************************************)
(* C10                                                                     *)
(***************************************************************************)
\* the stage-1 call, if any, of the request that ended at position r, seen
\* from position i
Stage1Between(r, i) == {c \in Events("cb1") : r < c /\ c < i}

\* C10: a stage-2 handler is called at most once (on the session, so at most
\* once per request), for the request received last; it is given the buffer
\* as stage-1 left it, the output size stage-1 set and the value stage-1
\* returned, or the request's own data, size and parameter when the handler
\* has no stage-1.  (Handlers keep to their contract: out_size <=
\* MAX_DATA_SIZE.)
C10_Stage2Arguments ==
    /\ Cardinality(Events("cb2")) <= 1
    /\ \A i \in Events("cb2") :
         LET r == LastBefore("req_end", i)
         IN /\ r # 0
            /\ trace[i].msg_type = trace[r].hdr.msg_type
            /\ \A c \in Stage1Between(r, i) :
                 /\ trace[i].data = trace[c].data
                 /\ trace[i].size = trace[c].out_size
                 /\ trace[i].param = trace[c].result
            /\ Stage1Between(r, i) = {} =>
                 /\ trace[i].size = trace[r].hdr.data_size
                 /\ trace[i].param = trace[r].hdr.parameter_or_result
                 /\ DataPrefix(trace[i].data, trace[i].size) = trace[r].covered

\* a stage-2 handler was called after a stage-1 that changed the size
C10_Witness ==
    \E i \in Events("cb2") : \E c \in Events("cb1") :
        /\ c < i /\ LastBefore("req_end", i) < c
        /\ trace[c].out_size # trace[c].in_size
        /\ trace[i].size = trace[c].out_size

(***************************************************************************)
(* C11                                                                     *)
(***************************************************************************)
\* a stage-1 call of the update handler that rewrote the settings file
UpdateSucceeded(e) ==
    /\ e.ev = "cb1" /\ e.fn = "wifi_settings_update_handler"
    /\ e.in_param = 0 /\ e.result = e.in_size

\* the events the step adds to the history
NewEvents == {i \in DOMAIN trace' : i > Len(trace)}

\* C11 (as stated): the hashed secret changes only in a step before which
\* the reply of a successful update has been written in full (the reply is
\* its header alone).  This fails: the update handler refreshes the secret
\* itself, before its reply exists.
C11_AsStated ==
    [][g_secret_hashed' # g_secret_hashed =>
         \E c \in Events("cb1") :
            UpdateSucceeded(trace[c]) /\ Len(written) > trace[c].ngen]_vars

\* C11 (amended): the hashed secret changes only in a step in which the
\* stage-1 update handler ran and rewrote the settings file; the handler
\* runs before any block of its reply is generated, and a failed update
\* leaves the secret as it was.
C11_SecretRefreshedInUpdateHandler ==
    [][/\ g_secret_hashed' # g_secret_hashed =>
            \E c \in NewEvents :
               UpdateSucceeded(trace'[c]) /\ trace'[c].ngen = Len(generated)
       /\ (\A c \in NewEvents :
              trace'[c].ev = "cb1" => ~UpdateSucceeded(trace'[c]))
            => g_secret_hashed' = g_secret_hashed]_vars

\* the secret has been refreshed by an update whose reply is not written
C11_Witness ==
    \E c \in Events("cb1") :
        /\ UpdateSucceeded(trace[c])
        /\ \A d \in Events("cb1") : d <= c
        /\ g_secret_hashed \in {"zero", "K2"}
        /\ Len(written) <= trace[c].ngen
        /\ \E d \in Events("cb1") : d < c /\ ~UpdateSucceeded(trace[d])
                                     /\ trace[d].fn = "wifi_settings_update_handler"

(***************************************************************************)
(* C12                                                                     *)
(***************************************************************************)
Called == reg.msg_type # -1

\* the call replaced the entry of its msg_type and no other
Replaced ==
    /\ g_handler_table[reg.msg_type - ID_FIRST_HANDLER] =
           [callback1 |-> reg.callback1, callback2 |-> reg.callback2]
    /\ \A id \in DOMAIN g_handler_table :
           id # reg.msg_type - ID_FIRST_HANDLER
               => g_handler_table[id] = reg.before[id]

Status(i) == g_wifi_state.ssid_scan_info[i]

Tried == {"ATTEMPT", "FAILED", "BADAUTH", "TIMEOUT"}

\* the step is a run of the periodic worker
Ticked == scan_history'.op = "tick"

\* C13: whenever a join starts (SCANNING to CONNECTING) the slot joined is
\* the smallest slot whose status is FOUND at that tick
C13_JoinLowestFound ==
    [][g_wifi_state.cstate = "SCANNING" /\ g_wifi_state'.cstate = "CONNECTING"
        => /\ FoundSlots(Manager) # {}
           /\ \A j \in FoundSlots(Manager) : g_wifi_state'.selected_ssid_index <= j
           /\ g_wifi_state'.selected_ssid_index \in FoundSlots(Manager)
           /\ cyw43_state'.joined = g_wifi_state'.selected_ssid_index]_vars

\* a join of slot 2 with slot 3 found as well and slot 1 used up
C13_Witness ==
    /\ g_wifi_state.cstate = "CONNECTING"
    /\ scan_history.op = "tick"
    /\ g_wifi_state.selected_ssid_index = 2
    /\ cyw43_state.joined = 2
    /\ Status(1) = "FAILED"
    /\ Status(3) = "FOUND"

\* C14: between the start of one scan and the start of the next a join is
\* attempted at most once for each slot: a slot whose status is ATTEMPT,
\* FAILED, BADAUTH or TIMEOUT neither becomes FOUND again nor is joined
C14_OneJoinPerSlotPerScan ==
    /\ [](\A i \in Slots : scan_history.joins[i] <= 1)
    /\ [][\A i \in Slots :
            Status(i) \in Tried
            => /\ g_wifi_state'.ssid_scan_info[i] # "FOUND"
               /\ scan_history'.joins[i] <= scan_history.joins[i]]_vars

\* two slots have had their one attempt and the third is still to come
C14_Witness ==
    /\ g_wifi_state.cstate = "SCANNING"
    /\ ~cyw43_state.scan_active
    /\ Status(1) = "FAILED" /\ scan_history.joins[1] = 1
    /\ Status(2) = "BADAUTH" /\ scan_history.joins[2] = 1
    /\ Status(3) = "FOUND" /\ scan_history.joins[3] = 0

Failures == {"FAILED", "BADAUTH", "TIMEOUT"}

\* the scan start, the scan in progress and the other slots are as they were
SameScan ==
    /\ scan_history'.last_scan = scan_history.last_scan
    /\ cyw43_state'.scan_active = cyw43_state.scan_active
    /\ \A i \in Slots : i # g_wifi_state.selected_ssid_index
                        => g_wifi_state'.ssid_scan_info[i] = Status(i)

\* C15: a join that fails in CONNECTING marks the slot with the failure and
\* returns to SCANNING without a new scan; the following tick joins the
\* lowest slot still FOUND, and when none is left goes to TRY_TO_CONNECT
\* with no slot selected
C15_FailureRetriesWithoutScan ==
    [][/\ g_wifi_state.cstate = "CONNECTING" /\ g_wifi_state'.cstate = "SCANNING"
          => /\ g_wifi_state'.ssid_scan_info[g_wifi_state.selected_ssid_index] \in Failures
             /\ SameScan
       /\ Ticked /\ g_wifi_state.cstate = "SCANNING" /\ ~cyw43_state.scan_active
             /\ FoundSlots(Manager) # {}
             /\ (HasSsid(LowestSlot(FoundSlots(Manager)))
                   \/ HasBssid(LowestSlot(FoundSlots(Manager))))
          => /\ g_wifi_state'.cstate = "CONNECTING"
             /\ g_wifi_state'.selected_ssid_index = LowestSlot(FoundSlots(Manager))
             /\ scan_history'.last_scan = scan_history.last_scan
       /\ Ticked /\ g_wifi_state.cstate = "SCANNING" /\ ~cyw43_state.scan_active
             /\ FoundSlots(Manager) = {}
          => /\ g_wifi_state'.cstate = "TRY_TO_CONNECT"
             /\ g_wifi_state'.selected_ssid_index = 0
             /\ scan_history'.last_scan = scan_history.last_scan]_vars

\* the slot that was found has failed, no scan has started since, and the
\* manager waits to scan again
C15_Witness ==
    /\ g_wifi_state.cstate = "TRY_TO_CONNECT"
    /\ scan_history.op = "tick"
    /\ g_wifi_state.selected_ssid_index = 0
    /\ \E i \in Slots : Status(i) \in Failures /\ scan_history.joins[i] = 1
    /\ scan_history.join_time > scan_history.last_scan
    /\ FoundSlots(Manager) = {}
    /\ ~time_reached(g_wifi_state.scan_holdoff_time)

\* the record of slot i has gone from the settings
Forgotten(i) == ~HasSsid(i) /\ ~HasBssid(i)

\* C16: if at the tick that selects a FOUND slot for the join the record of
\* that slot is no longer in the settings, the slot is marked ATTEMPT, the
\* state becomes TRY_TO_CONNECT and the join primitive is not called
C16_ForgottenRecordNotJoined ==
    [][Ticked /\ g_wifi_state.cstate = "SCANNING" /\ ~cyw43_state.scan_active
          /\ FoundSlots(Manager) # {} /\ Forgotten(LowestSlot(FoundSlots(Manager)))
       => /\ g_wifi_state'.ssid_scan_info[LowestSlot(FoundSlots(Manager))] = "ATTEMPT"
          /\ g_wifi_state'.cstate = "TRY_TO_CONNECT"
          /\ scan_history'.joins = scan_history.joins
          /\ scan_history'.join_time = scan_history.join_time
          /\ cyw43_state'.joined = 0]_vars

\* a slot marked ATTEMPT for which no join was made
C16_Witness ==
    /\ scan_history.op = "tick"
    /\ g_wifi_state.cstate = "TRY_TO_CONNECT"
    /\ \E i \in Slots : /\ Status(i) = "ATTEMPT"
                        /\ scan_history.joins[i] = 0
                        /\ Forgotten(i)
    /\ cyw43_state.joined = 0

\* C17: a slot that names a BSSID is marked FOUND by a scan result if and
\* only if the BSSID of the result is that BSSID, whatever the SSID of the
\* result and the ssid<N> of the slot are
C17_BssidDecides ==
    \A result \in ScanResults : \A i \in Slots :
        HasBssid(i) /\ Status(i) # "FOUND"
        => (wifi_scan_callback(Manager, result).g.ssid_scan_info[i] = "FOUND"
              <=> result.bssid = key_value_items[i].bssid)

\* a result with the BSSID of slot 2 and another SSID than its ssid2 has
\* come: slot 2 is found, slot 3 with the same SSID and no BSSID is not
C17_Witness ==
    /\ scan_history.op = "scan_result"
    /\ cyw43_state.scan_active
    /\ HasBssid(2) /\ HasSsid(2)
    /\ key_value_items[3] = Hotspot(key_value_items[2].ssid, NULL)
    /\ Status(2) = "FOUND"
    /\ Status(3) = "NOT_FOUND"
    /\ Status(1) = "NOT_FOUND"

LinkLeft(hw) ==
    /\ hw.joined = 0
    /\ hw.link_status = "CYW43_LINK_DOWN"
    /\ ~hw.link_up
    /\ ~hw.ip

ConnectDeadlineReached ==
    current_time >= scan_history.join_time + CONNECT_TIMEOUT_TIME_MS

Selected == g_wifi_state.selected_ssid_index

StillJoining ==
    /\ cyw43_state.link_status = "CYW43_LINK_JOIN"
    /\ ~(cyw43_state.link_up /\ cyw43_state.ip)

\* C19 as stated: the tick at or after the deadline always marks the slot
\* TIMEOUT and moves to SCANNING
C19_AsStated ==
    [][Ticked /\ g_wifi_state.cstate = "CONNECTING" /\ ConnectDeadlineReached
       => /\ g_wifi_state'.ssid_scan_info[Selected] = "TIMEOUT"
          /\ g_wifi_state'.cstate = "SCANNING"]_vars

\* C19: every connection attempt is bounded: a tick in CONNECTING at or
\* after CONNECT_TIMEOUT_TIME_MS since the join leaves CONNECTING, with
\* TIMEOUT and SCANNING if the link is still joining, and with the outcome
\* the link reports otherwise
C19_AttemptBounded ==
    /\ [](g_wifi_state.cstate = "CONNECTING" /\ scan_history.op = "tick"
            => ~ConnectDeadlineReached)
    /\ [][Ticked /\ g_wifi_state.cstate = "CONNECTING" /\ ConnectDeadlineReached
          => /\ g_wifi_state'.cstate # "CONNECTING"
             /\ StillJoining
                  => /\ g_wifi_state'.ssid_scan_info[Selected] = "TIMEOUT"
                     /\ g_wifi_state'.cstate = "SCANNING"
             /\ ~StillJoining
                  => \/ /\ g_wifi_state'.ssid_scan_info[Selected] = "SUCCESS"
                        /\ g_wifi_state'.cstate = "CONNECTED_IP"
                        /\ cyw43_state.link_status = "CYW43_LINK_JOIN"
                     \/ /\ g_wifi_state'.ssid_scan_info[Selected] = "BADAUTH"
                        /\ g_wifi_state'.cstate = "SCANNING"
                        /\ cyw43_state.link_status = "CYW43_LINK_BADAUTH"
                     \/ /\ g_wifi_state'.ssid_scan_info[Selected] = "FAILED"
                        /\ g_wifi_state'.cstate = "SCANNING"
                        /\ cyw43_state.link_status
                              \notin {"CYW43_LINK_JOIN", "CYW43_LINK_BADAUTH"}]_vars

\* the tick at the deadline has ended an attempt that was still joining
C19_Witness ==
    /\ scan_history.op = "tick"
    /\ g_wifi_state.cstate = "SCANNING"
    /\ Selected \in Slots
    /\ Status(Selected) = "TIMEOUT"
    /\ ConnectDeadlineReached
    /\ g_wifi_state.next_time = current_time + PERIODIC_TIME_MS

\* the step starts a scan
ScanStarts == Ticked /\ g_wifi_state.cstate = "TRY_TO_CONNECT"
                     /\ g_wifi_state'.cstate = "SCANNING"

\* no scan starts before the holdoff deadline, and the first scan of an
\* initialisation starts INITIAL_SETUP_TIME_MS or more after it
HoldoffRespected ==
    [][ScanStarts
       => /\ time_reached(g_wifi_state.scan_holdoff_time)
          /\ scan_history'.last_scan = current_time
          /\ current_time >= scan_history.init_time + INITIAL_SETUP_TIME_MS]_vars

\* C20: no scan starts before the scan-holdoff deadline: the first scan
\* starts INITIAL_SETUP_TIME_MS or more after the initialisation, and two
\* consecutive scan starts are REPEAT_SCAN_TIME_MS or more apart
C20_ScansHeldOff ==
    [][ScanStarts
       => /\ time_reached(g_wifi_state.scan_holdoff_time)
          /\ current_time >= scan_history.init_time + INITIAL_SETUP_TIME_MS
          /\ scan_history.last_scan # -1
                => current_time >= scan_history.last_scan + REPEAT_SCAN_TIME_MS]_vars

-----------------------------------------------------------------------------
\* The settings store: saving the settings file to Flash
\* (wifi_settings_update_flash_unsafe and wifi_settings_update_flash_safe, on
\* the Flash of the unit test bench)

\* what the actions of the settings store leave alone
notsave == <<remotevars, cmvars, lookupvars, filevars, handlervars, discoveryvars, listenervars>>

\* the bytes a file is made of here: a letter and the erased byte
FileBytes == {65, 255}
Files(n) == [1..n -> FileBytes]
SaveSizes == 0..(WIFI_SETTINGS_FILE_SIZE + 1)
ErrorPlaces == (0..(WIFI_SETTINGS_FILE_SIZE - 1)) \cup {NoError}

\* who calls the save: wifi_settings_update_flash_safe ("safe"),
\* wifi_settings_update_reboot_handler2 with interrupts disabled ("reboot"),
\* or a direct call of wifi_settings_update_flash_unsafe ("unsafe")
Scopes == {"safe", "reboot", "unsafe"}

\* b ^ 1
Flip(b) == IF b % 2 = 0 THEN b + 1 ELSE b - 1

flash_range_erase(flash) == [i \in DOMAIN flash |-> 255]

flash_range_program(flash, offset, page) ==
    [i \in DOMAIN flash |->
        IF i > offset /\ i <= offset + FLASH_PAGE_SIZE THEN page[i - offset]
        ELSE flash[i]]

\* the page the loop programs at offset: a whole page of the file, or the
\* rest of the file on a page filled with 0xff
page_copy(file, file_size, offset) ==
    [j \in 1..FLASH_PAGE_SIZE |->
        IF offset + j <= file_size THEN file[offset + j] ELSE 255]

\* (variant: the loop advances by one byte)
next_offset_byte(offset) == offset + 1

\* offset += FLASH_PAGE_SIZE
next_offset(offset) == offset + FLASH_PAGE_SIZE

\* the error of the test bench, put into the Flash before the first verify
inject_error(flash, at) ==
    IF at < WIFI_SETTINGS_FILE_SIZE THEN [flash EXCEPT ![at + 1] = Flip(@)]
    ELSE flash

\* (variant: the comparison leaves out the first byte)
flash_range_verify_tail(flash, start, count, data) ==
    \A j \in 2..count : flash[start + j] = data[j]

\* memcmp of count bytes of Flash from start with data
wifi_settings_flash_range_verify(flash, start, count, data) ==
    \A j \in 1..count : flash[start + j] = data[j]

\* (variant: the byte after the data is not read)
verify_file_data_only(flash, file, file_size) ==
    [reads |-> <<[op |-> "verify", at |-> 0]>>,
     rc |-> IF wifi_settings_flash_range_verify(flash, 0, file_size, file)
            THEN PICO_OK ELSE PICO_ERROR_INVALID_DATA]

\* the verification at the end of wifi_settings_update_flash_unsafe: the
\* reads it makes and its return value
verify_file(flash, file, file_size) ==
    LET first == [op |-> "verify", at |-> 0]
        second == [op |-> "verify", at |-> file_size]
    IN  IF wifi_settings_flash_range_verify(flash, 0, file_size, file)
        THEN IF file_size < WIFI_SETTINGS_FILE_SIZE
             THEN [reads |-> <<first, second>>,
                   rc |-> IF wifi_settings_flash_range_verify(
                                 flash, file_size, 1, <<255>>)
                          THEN PICO_OK ELSE PICO_ERROR_INVALID_DATA]
             ELSE [reads |-> <<first>>, rc |-> PICO_OK]
        ELSE [reads |-> <<first>>, rc |-> PICO_ERROR_INVALID_DATA]

\* wifi_settings_update_flash_safe returns param.rc when flash_safe_execute
\* returned PICO_OK, else what flash_safe_execute returned
wifi_settings_update_flash_safe(execute_rc, param_rc) ==
    IF execute_rc = PICO_OK THEN param_rc ELSE execute_rc

SaveRunning == save.pc \in {"erase", "program", "verify"}

\* a reader of the region runs between two steps of the save: not inside
\* the safe-flash scope nor while the caller keeps interrupts disabled
reader_may_run(s) == s.pc \in {"idle", "done"} \/ s.scope = "unsafe"

\* a save is called
Save ==
    /\ save.pc = "idle"
    /\ \E scope \in Scopes, n \in SaveSizes, at \in ErrorPlaces :
         \E file \in Files(n) :
           save' = [pc |-> IF n > WIFI_SETTINGS_FILE_SIZE THEN "done" ELSE "erase",
                    scope |-> scope, file |-> file, file_size |-> n, offset |-> 0,
                    rc |-> IF n > WIFI_SETTINGS_FILE_SIZE
                           THEN PICO_ERROR_INVALID_ARG ELSE PICO_OK,
                    flash_program_error_at |-> at, before |-> flash_fake]
    /\ UNCHANGED <<flash_fake, flash_ops, reader_saw, notsave>>

\* the region is erased, with interrupts disabled
Erase ==
    /\ save.pc = "erase"
    /\ flash_fake' = flash_range_erase(flash_fake)
    /\ flash_ops' = Append(flash_ops, [op |-> "erase", at |-> 0])
    /\ save' = [save EXCEPT !.pc = IF 0 < save.file_size THEN "program"
                                   ELSE "verify"]
    /\ UNCHANGED <<reader_saw, notsave>>

\* one page is programmed, with interrupts disabled
Program ==
    /\ save.pc = "program"
    /\ flash_fake' = flash_range_program(flash_fake, save.offset,
                         page_copy(save.file, save.file_size, save.offset))
    /\ flash_ops' = Append(flash_ops, [op |-> "program", at |-> save.offset])
    /\ save' = [save EXCEPT !.offset = next_offset(save.offset),
                            !.pc = IF next_offset(save.offset) < save.file_size
                                   THEN "program" ELSE "verify"]
    /\ UNCHANGED <<reader_saw, notsave>>

\* the file is verified and the save returns
Verify ==
    /\ save.pc = "verify"
    /\ LET flash == inject_error(flash_fake, save.flash_program_error_at)
           v == verify_file(flash, save.file, save.file_size)
       IN  /\ flash_fake' = flash
           /\ flash_ops' = flash_ops \o v.reads
           /\ save' = [save EXCEPT
                         !.pc = "done",
                         !.rc = IF save.scope = "safe"
                                THEN wifi_settings_update_flash_safe(PICO_OK, v.rc)
                                ELSE v.rc,
                         !.flash_program_error_at =
                             IF @ < WIFI_SETTINGS_FILE_SIZE
                             THEN WIFI_SETTINGS_FILE_SIZE ELSE @]
    /\ UNCHANGED <<reader_saw, notsave>>

\* another context (an interrupt handler, the event loop) reads the region
ReadRegion ==
    /\ reader_may_run(save)
    /\ reader_saw' = [pc |-> save.pc, content |-> flash_fake]
    /\ UNCHANGED <<flash_fake, save, flash_ops, notsave>>

\* the test bench starts again: reset_flash()
ResetFlash ==
    /\ save.pc = "done"
    /\ flash_fake' = reset_flash
    /\ save' = NoSave
    /\ flash_ops' = <<>>
    /\ reader_saw' = NotRead
    /\ UNCHANGED notsave

NextSave == Save \/ Erase \/ Program \/ Verify \/ ReadRegion \/ ResetFlash

SpecSave == InitConnect /\ [][NextSave]_vars

-----------------------------------------------------------------------------
\* Claims about the save

\* ceil(size / FLASH_PAGE_SIZE)
PagesOf(size) == (size + FLASH_PAGE_SIZE - 1) \div FLASH_PAGE_SIZE

\* one erase, the page programs in ascending order, then nverify reads
SaveOps(size, nverify) ==
    <<[op |-> "erase", at |-> 0]>>
    \o [k \in 1..PagesOf(size) |->
           [op |-> "program", at |-> (k - 1) * FLASH_PAGE_SIZE]]
    \o [k \in 1..nverify |->
           [op |-> "verify", at |-> IF k = 1 THEN 0 ELSE size]]

SaveDone == save.pc = "done" /\ save.file_size <= WIFI_SETTINGS_FILE_SIZE

\* the first file_size bytes of the region are the bytes of the file
DataWritten == \A j \in 1..save.file_size : flash_fake[j] = save.file[j]

\* C21 as stated: a save of 0..SETTINGS_SIZE bytes makes one erase, then
\* ceil(size / PAGE_SIZE) page programs in ascending order, then one
\* verification read, or two when size < SETTINGS_SIZE.
C21_AsStated ==
    SaveDone =>
        flash_ops = SaveOps(save.file_size,
                        IF save.file_size < WIFI_SETTINGS_FILE_SIZE THEN 2 ELSE 1)

\* C21 amended: a save of 0..SETTINGS_SIZE bytes makes one erase of the
\* region, then ceil(size / PAGE_SIZE) page programs in ascending order, then
\* the verification reads, with no erase or program after the first of them:
\* one read of the data, and a second read of the byte after the data only
\* when size < SETTINGS_SIZE and the data compared equal.
C21_SaveSequence ==
    /\ SaveRunning =>
         IsPrefix(flash_ops, SaveOps(save.file_size, 0))
    /\ SaveDone =>
         flash_ops = SaveOps(save.file_size,
                         IF save.file_size < WIFI_SETTINGS_FILE_SIZE /\ DataWritten
                         THEN 2 ELSE 1)

\* a save whose last page is a short one has finished with two reads, and so
\* has a save of the whole region with one
C21_Witness ==
    /\ SaveDone
    /\ save.file_size = FLASH_PAGE_SIZE + 1
    /\ save.rc = PICO_OK
    /\ Len(flash_ops) = 1 + 2 + 2

\* the file followed by 0xff in every remaining byte of the region
Padded(file, file_size) ==
    [i \in 1..WIFI_SETTINGS_FILE_SIZE |->
        IF i <= file_size THEN file[i] ELSE 255]

\* the byte right after the data, where there is one, is 0xff
Terminated ==
    save.file_size < WIFI_SETTINGS_FILE_SIZE => flash_fake[save.file_size + 1] = 255

\* C22 as stated: whenever a save returns success the region holds the bytes
\* of the blob followed by 0xFF in every remaining byte, and whenever the
\* programmed bytes differ from the source or the byte right after the data is
\* not 0xFF the save returns INVALID_DATA.
C22_AsStated ==
    SaveDone =>
        /\ save.rc = PICO_OK => flash_fake = Padded(save.file, save.file_size)
        /\ ~(DataWritten /\ Terminated) => save.rc = PICO_ERROR_INVALID_DATA

\* C22 amended: a save returns success exactly when the first size bytes of
\* the region equal the blob and the byte right after the data, where there
\* is one, is 0xFF, and INVALID_DATA otherwise; the bytes further on are not
\* read back, and they are 0xFF too when the Flash did not fail.
C22_VerifiedOnSuccess ==
    SaveDone =>
        /\ save.rc = PICO_OK => DataWritten /\ Terminated
        /\ ~(DataWritten /\ Terminated) => save.rc = PICO_ERROR_INVALID_DATA
        /\ save.rc = PICO_OK /\ save.flash_program_error_at = NoError
              => flash_fake = Padded(save.file, save.file_size)

\* a save with a short last page returned success over a region that had
\* other content before
C22_Witness ==
    /\ SaveDone
    /\ save.rc = PICO_OK
    /\ save.file_size = FLASH_PAGE_SIZE + 1
    /\ save.before = reset_flash
    /\ flash_fake = Padded(save.file, save.file_size)

\* what a reader takes for the new file: the data, ended by 0xff (the parser
\* stops at that byte) or by the end of the region
NewContent(c) ==
    /\ \A j \in 1..save.file_size : c[j] = save.file[j]
    /\ save.file_size < WIFI_SETTINGS_FILE_SIZE => c[save.file_size + 1] = 255

OldContent(c) == c = save.before

ReadDuringSave == reader_saw.pc \in {"erase", "program", "verify"}

\* C23 as stated: a reader that runs while a save is in progress (between the
\* erase, program and verify steps) observes either the complete old content
\* or the complete new content of the region.
C23_AsStated ==
    ReadDuringSave =>
        OldContent(reader_saw.content) \/ NewContent(reader_saw.content)

\* C23 amended: a reader runs between the steps of a save only when
\* wifi_settings_update_flash_unsafe is called with interrupts enabled (never
\* inside the safe-flash scope, nor when the caller disabled interrupts); a
\* reader that runs before the save observes the old content, and so does one
\* that runs after a save refused with INVALID_ARG, and a reader that runs
\* after a save returned success observes the complete new content.
C23_ReadersOutsideSave ==
    /\ ReadDuringSave => save.scope = "unsafe"
    /\ reader_saw.pc = "idle" /\ save.pc # "idle" =>
          OldContent(reader_saw.content)
    /\ reader_saw.pc = "done" /\ save.rc = PICO_ERROR_INVALID_ARG =>
          OldContent(reader_saw.content)
    /\ reader_saw.pc = "done" /\ save.rc = PICO_OK =>
          NewContent(reader_saw.content)

\* a reader ran after a save through the safe-flash scope returned success
\* and saw the new file in place of the old content
C23_Witness ==
    /\ reader_saw.pc = "done"
    /\ save.scope = "safe"
    /\ save.rc = PICO_OK
    /\ save.file_size = WIFI_SETTINGS_FILE_SIZE - 1
    /\ save.before = reset_flash
    /\ reader_saw.content = Padded(save.file, save.file_size)

-----------------------------------------------------------------------------
\* The settings store: wifi_settings_get_value_for_key_within_file

notlookup == <<remotevars, cmvars, savevars, filevars, handlervars, discoveryvars, listenervars>>

\* the bytes of a settings file: 'a', '=', '\n', '\r', and the bytes that end
\* a file: '\0', '\x1a' and '\xff'
FileAlphabet == {97, 61, 10, 13, 0, 26, 255}

SettingsTexts == UNION {[1..n -> FileAlphabet] : n \in 0..MaxFileLen}

\* keys asked for: "", "a" and "aa"
LookupKeys == {<<>>, <<97>>, <<97, 97>>}

\* sizes of the caller's value buffer
Capacities == {1, MaxFileLen}

\* (variant: '\x1b' in the place of '\x1a')
ends_file_1b(c) == c \in {0, 27, 255}

\* the bytes that end the loop over the file
ends_file(c) == c \in {0, 26, 255}

ends_line(c) == c \in {10, 13}

\* (variant: the key is taken as matched after its first character)
key_matched_at_once(key, key_index) == "SEPARATOR"

\* the state after key_index characters of the key matched
key_matched(key, key_index) ==
    IF key_index = Len(key) THEN "SEPARATOR" ELSE "KEY"

\* the switch on parse_state, for a character c that does not end a line
parse_char(st, key, c) ==
    CASE st.parse_state = "NEW_LINE" ->
           IF key[1] = c
           THEN [st EXCEPT !.key_index = 1, !.parse_state = key_matched(key, 1)]
           ELSE [st EXCEPT !.key_index = 0, !.parse_state = "WAIT_FOR_NEW_LINE"]
      [] st.parse_state = "KEY" ->
           IF key[st.key_index + 1] = c
           THEN [st EXCEPT !.key_index = @ + 1,
                           !.parse_state = key_matched(key, st.key_index + 1)]
           ELSE [st EXCEPT !.parse_state = "WAIT_FOR_NEW_LINE"]
      [] st.parse_state = "SEPARATOR" ->
           IF c = 61 THEN [st EXCEPT !.parse_state = "VALUE"]
           ELSE [st EXCEPT !.parse_state = "WAIT_FOR_NEW_LINE"]
      [] st.parse_state = "VALUE" ->
           [st EXCEPT !.value = Append(@, c)]
      [] OTHER -> st

\* the loop over the file from file_index on, and what is returned
RECURSIVE parse_file(_, _, _, _, _)
parse_file(file, key, capacity, file_index, st) ==
    IF file_index > Len(file) \/ ends_file(file[file_index])
    THEN IF st.parse_state = "VALUE"
         THEN [found |-> TRUE, value |-> st.value, value_size |-> Len(st.value)]
         ELSE [found |-> FALSE, value |-> st.value, value_size |-> capacity]
    ELSE IF ends_line(file[file_index])
    THEN IF st.parse_state = "VALUE"
         THEN [found |-> TRUE, value |-> st.value, value_size |-> Len(st.value)]
         ELSE parse_file(file, key, capacity, file_index + 1,
                         [st EXCEPT !.parse_state = "NEW_LINE"])
    ELSE IF st.parse_state = "VALUE" /\ Len(st.value) >= capacity
    THEN [found |-> TRUE, value |-> st.value, value_size |-> capacity]
    ELSE parse_file(file, key, capacity, file_index + 1,
                    parse_char(st, key, file[file_index]))

wifi_settings_get_value_for_key_within_file(file, key, capacity) ==
    IF key = <<>>
    THEN [found |-> FALSE, value |-> <<>>, value_size |-> capacity]
    ELSE parse_file(file, key, capacity, 1,
                    [parse_state |-> "NEW_LINE", value |-> <<>>, key_index |-> 0])

\* a key is looked up in a file
LookupCall ==
    /\ lookup.pc = "idle"
    /\ \E file \in SettingsTexts, key \in LookupKeys, capacity \in Capacities :
         lookup' = [NoLookup EXCEPT !.pc = "called", !.file = file, !.key = key,
                                    !.capacity = capacity, !.value_size = capacity]
    /\ UNCHANGED notlookup

\* the lookup returns
LookupReturn ==
    /\ lookup.pc = "called"
    /\ LET r == wifi_settings_get_value_for_key_within_file(
                    lookup.file, lookup.key, lookup.capacity)
       IN  lookup' = [lookup EXCEPT !.pc = "returned", !.found = r.found,
                                    !.value = r.value, !.value_size = r.value_size]
    /\ UNCHANGED notlookup

NextLookup == LookupCall \/ LookupReturn

SpecLookup == InitConnect /\ [][NextLookup]_vars

-----------------------------------------------------------------------------
\* The settings store: the editor of the RAM copy (file_operations.c)

notfile == <<remotevars, cmvars, savevars, lookupvars, handlervars, discoveryvars, listenervars>>

\* fh->contents[index], index counted from 0; c holds the contents followed
\* by the byte that lies after the array
At(c, index) == c[index + 1]

is_end_of_file_char(value) == value \in {0, 255, 27}

is_end_of_line_char(value) == value \in {13, 10} \/ is_end_of_file_char(value)

get_file_size(c) ==
    LET ends == {index \in 0..(WIFI_SETTINGS_FILE_SIZE - 1) :
                    is_end_of_file_char(At(c, index))}
    IN  IF ends = {} THEN WIFI_SETTINGS_FILE_SIZE
        ELSE CHOOSE index \in ends : \A j \in ends : index <= j

\* find_next_key, first loop: the next character that does not end a line,
\* or -1 at the end of the file
RECURSIVE next_line_start(_, _)
next_line_start(c, index) ==
    IF is_end_of_line_char(At(c, index))
    THEN IF is_end_of_file_char(At(c, index)) THEN -1
         ELSE IF index + 1 >= WIFI_SETTINGS_FILE_SIZE THEN -1
         ELSE next_line_start(c, index + 1)
    ELSE index

\* find_next_key, second loop: the next '=' or end of line, or -1
RECURSIVE next_separator(_, _)
next_separator(c, index) ==
    IF At(c, index) # 61 /\ ~is_end_of_line_char(At(c, index))
    THEN IF index + 1 >= WIFI_SETTINGS_FILE_SIZE THEN -1
         ELSE next_separator(c, index + 1)
    ELSE index

\* find_next_key, third loop: the end of the value
RECURSIVE value_end(_, _)
value_end(c, index) ==
    IF index < WIFI_SETTINGS_FILE_SIZE /\ ~is_end_of_line_char(At(c, index))
    THEN value_end(c, index + 1)
    ELSE index

\* find_next_key, last loop: the end of a line without a key, or -1
RECURSIVE line_end(_, _)
line_end(c, index) ==
    IF ~is_end_of_line_char(At(c, index))
    THEN IF index + 1 >= WIFI_SETTINGS_FILE_SIZE THEN -1
         ELSE line_end(c, index + 1)
    ELSE index

NoKey == [found |-> FALSE, key_index |-> 0, value_index |-> 0, end_index |-> 0]

RECURSIVE find_next_key(_, _)
find_next_key(c, end_index) ==
    LET start == next_line_start(c, end_index)
    IN  IF start = -1 THEN NoKey
        ELSE LET index == next_separator(c, start)
             IN  IF index = -1 THEN NoKey
                 ELSE IF At(c, index) = 61 /\ start < index
                 THEN [found |-> TRUE, key_index |-> start,
                       value_index |-> index + 1,
                       end_index |-> value_end(c, index + 1)]
                 ELSE LET eol == line_end(c, index)
                      IN  IF eol = -1 THEN NoKey
                          ELSE find_next_key(c, eol)

\* this_key_size == wanted_key_size and strncmp(...) == 0
same_key(c, key, fir) ==
    /\ (fir.value_index - fir.key_index) - 1 = Len(key)
    /\ \A j \in 1..Len(key) : At(c, fir.key_index + j - 1) = key[j]

RECURSIVE find_from(_, _, _)
find_from(c, key, end_index) ==
    LET fir == find_next_key(c, end_index)
    IN  IF ~fir.found THEN NoKey
        ELSE IF same_key(c, key, fir) THEN fir
        ELSE find_from(c, key, fir.end_index)

\* (variant: only the first key of the file is compared)
find_index_first_key(c, key) ==
    LET fir == find_next_key(c, 0)
    IN  IF fir.found /\ same_key(c, key, fir) THEN fir ELSE NoKey

find_index(c, key) == find_from(c, key, 0)

\* the capacity check of create_gap
\* (variant: one byte more than the array holds is accepted)
fits_one_more(new_file_size) == new_file_size <= WIFI_SETTINGS_FILE_SIZE + 1

fits(new_file_size) == new_file_size <= WIFI_SETTINGS_FILE_SIZE

\* create_gap: whether it succeeded, the contents it leaves and the places
\* (counted from 0) it wrote to
create_gap(c, replace_index, remove_size, gap_size) ==
    LET current_file_size == get_file_size(c)
        new_file_size == current_file_size + gap_size - remove_size
        move_to_index == replace_index + gap_size
        move_from_index == replace_index + remove_size
        moved == current_file_size - move_from_index
        contents == SubSeq(c, 1, WIFI_SETTINGS_FILE_SIZE)
    IN  IF replace_index < 0 \/ remove_size < 0 \/ gap_size < 0
           \/ replace_index + remove_size > current_file_size
           \/ ~fits(new_file_size)
        THEN [ok |-> FALSE, contents |-> contents, writes |-> {}]
        ELSE [ok |-> TRUE,
              contents |->
                [i \in 1..WIFI_SETTINGS_FILE_SIZE |->
                    LET index == i - 1
                    IN  IF gap_size > 0 /\ index >= replace_index
                           /\ index < replace_index + gap_size
                        THEN 32
                        ELSE IF new_file_size = current_file_size
                        THEN contents[i]
                        ELSE IF index >= new_file_size THEN 255
                        ELSE IF index >= move_to_index
                                /\ index < move_to_index + moved
                        THEN At(c, index - move_to_index + move_from_index)
                        ELSE contents[i]],
              writes |->
                (IF new_file_size = current_file_size THEN {}
                 ELSE (move_to_index..(move_to_index + moved - 1))
                      \cup (new_file_size..(WIFI_SETTINGS_FILE_SIZE - 1)))
                \cup (replace_index..(replace_index + gap_size - 1))]

RECURSIVE include_line_ending(_, _)
include_line_ending(c, end_index) ==
    IF /\ end_index < WIFI_SETTINGS_FILE_SIZE
       /\ ~is_end_of_file_char(At(c, end_index))
       /\ is_end_of_line_char(At(c, end_index))
    THEN include_line_ending(c, end_index + 1)
    ELSE end_index

\* (variant: a new key goes to the end of the file)
place_at_end(c, place_index) == place_index

\* file_set: the beginning of the last line of the file
RECURSIVE place_index_of(_, _)
place_index_of(c, place_index) ==
    IF place_index > 0 /\ ~is_end_of_line_char(At(c, place_index - 1))
    THEN place_index_of(c, place_index - 1)
    ELSE place_index

file_set(c, key, value) ==
    LET key_size == Len(key)
        value_size == Len(value)
        total_size == value_size + 2 + key_size
        found == find_index(c, key)
        place_index == place_index_of(c, get_file_size(c))
        replace_index == IF found.found THEN found.key_index ELSE place_index
        end_index == IF found.found THEN include_line_ending(c, found.end_index)
                     ELSE place_index
        remove_size == end_index - replace_index
        gap == create_gap(c, replace_index, remove_size, total_size)
        line == key \o <<61>> \o value \o <<10>>
    IN  IF ~gap.ok
        THEN [rc |-> FALSE, contents |-> gap.contents, writes |-> {}]
        ELSE [rc |-> TRUE,
              contents |->
                [i \in 1..WIFI_SETTINGS_FILE_SIZE |->
                    IF i - 1 >= replace_index /\ i - 1 < replace_index + total_size
                    THEN line[i - replace_index]
                    ELSE gap.contents[i]],
              writes |-> gap.writes
                         \cup (replace_index..(replace_index + total_size - 1))]

file_contains(c, key) == find_index(c, key).found

\* file_get: the value returned and the string left in the caller's buffer
file_get(c, key, value_size) ==
    LET fir == find_index(c, key)
        bytes_needed == 1 + fir.end_index - fir.value_index
        bytes_used == IF bytes_needed > value_size THEN value_size
                      ELSE bytes_needed
    IN  IF ~fir.found THEN [size |-> -1, value |-> <<>>]
        ELSE [size |-> bytes_needed,
              value |-> [j \in 1..(bytes_used - 1) |->
                            At(c, fir.value_index + j - 1)]]

\* one turn of the loop of file_discard: what is left, and whether it goes on
file_discard_turn(c, key) ==
    LET fir == find_index(c, key)
        end_index == include_line_ending(c, fir.end_index)
        gap == create_gap(c, fir.key_index, end_index - fir.key_index, 0)
    IN  IF ~fir.found
        THEN [again |-> FALSE, contents |-> SubSeq(c, 1, WIFI_SETTINGS_FILE_SIZE),
              writes |-> {}]
        ELSE [again |-> gap.ok, contents |-> gap.contents, writes |-> gap.writes]

\* the text of a settings file: 'a', '=' and '\n' (the editor treats '\r'
\* as it treats '\n')
TextAlphabet == {97, 61, 10}

\* what lies after the text in the array: 0xff as Flash leaves it, or 0x1b and
\* then lines that are no part of the file
Tails == {[i \in 1..WIFI_SETTINGS_FILE_SIZE |-> 255],
          [i \in 1..WIFI_SETTINGS_FILE_SIZE |->
              IF i = 1 THEN 27 ELSE IF i % 3 = 2 THEN 97
              ELSE IF i % 3 = 0 THEN 61 ELSE 10]}

\* the contents file_load may bring
RamFiles ==
    {text \o SubSeq(tail, 1, WIFI_SETTINGS_FILE_SIZE - Len(text)) :
        text \in UNION {[1..n -> TextAlphabet] : n \in 0..WIFI_SETTINGS_FILE_SIZE},
        tail \in Tails}

\* keys "a" and "aa", values "" and "a"
FileKeys == {<<97>>, <<97, 97>>}
FileValues == {<<>>, <<97>>}

\* the byte after the array, which find_next_key reads when the last value
\* ends with the array
BytesBeyond == {10, 61, 97, 255}

\* a buffer that holds any value of the file
ValueBufferSize == WIFI_SETTINGS_FILE_SIZE + 1

FileLoad ==
    /\ fh.pc = "idle"
    /\ \E contents \in RamFiles :
         fh' = [NoFile EXCEPT !.pc = "loaded", !.contents = contents,
                              !.before = contents]
    /\ UNCHANGED notfile

FileSet ==
    /\ fh.pc = "loaded"
    /\ \E key \in FileKeys, value \in FileValues, beyond \in BytesBeyond :
         LET r == file_set(Append(fh.contents, beyond), key, value)
         IN  fh' = [fh EXCEPT !.pc = "returned", !.op = "file_set", !.key = key,
                              !.value = value, !.rc = r.rc,
                              !.contents = r.contents, !.writes = r.writes]
    /\ UNCHANGED notfile

FileDiscard ==
    /\ fh.pc = "loaded"
    /\ \E key \in FileKeys :
         fh' = [fh EXCEPT !.pc = "discarding", !.op = "file_discard", !.key = key]
    /\ UNCHANGED notfile

FileDiscardTurn ==
    /\ fh.pc = "discarding"
    /\ \E beyond \in BytesBeyond :
         LET r == file_discard_turn(Append(fh.contents, beyond), fh.key)
         IN  fh' = [fh EXCEPT !.pc = IF r.again THEN "discarding" ELSE "returned",
                              !.contents = r.contents,
                              !.writes = @ \cup r.writes]
    /\ UNCHANGED notfile

NextFile == FileLoad \/ FileSet \/ FileDiscard \/ FileDiscardTurn

SpecFile == InitConnect /\ [][NextFile]_vars

-----------------------------------------------------------------------------
\* Claims about the lookup

Returned == lookup.pc = "returned"

\* the place of the first byte 0x00, 0x1A or 0xFF of the file, or the place
\* after its last byte
FirstEnd(file) ==
    LET ends == {i \in 1..Len(file) : file[i] \in {0, 26, 255}}
    IN  IF ends = {} THEN Len(file) + 1
        ELSE CHOOSE i \in ends : \A j \in ends : i <= j

\* a line begins at s with key and '='
KeyAt(file, key, s) ==
    /\ s = 1 \/ file[s - 1] \in {10, 13}
    /\ s + Len(key) <= Len(file)
    /\ \A j \in 1..Len(key) : file[s + j - 1] = key[j]
    /\ file[s + Len(key)] = 61

\* C24: a lookup never returns a value from a key=value line that begins
\* after the first byte 0x00, 0x1A or 0xFF of the file, and a value being read
\* when such a byte is reached ends immediately before it.
C24_StopsAtEndOfFile ==
    Returned /\ lookup.found =>
        LET e == FirstEnd(lookup.file)
            n == Len(lookup.value)
        IN  \E s \in 1..Len(lookup.file) :
              LET vs == s + Len(lookup.key) + 1
              IN  /\ KeyAt(lookup.file, lookup.key, s)
                  /\ vs <= e
                  /\ vs + n <= e
                  /\ lookup.value = SubSeq(lookup.file, vs, vs + n - 1)
                  /\ vs + n < e =>
                        \/ lookup.file[vs + n] \in {10, 13}
                        \/ n = lookup.capacity

\* a value was being read when the byte 0x1A was reached, with more of the
\* file after it
C24_Witness ==
    /\ Returned
    /\ lookup.found
    /\ lookup.value = <<97>>
    /\ lookup.capacity = MaxFileLen
    /\ lookup.file = <<97, 61, 97, 26, 97>>

\* the lines of the file that begin with key and '=' before the first byte
\* 0x00, 0x1A or 0xFF
KeyLines(file, key) ==
    {s \in 1..Len(file) : KeyAt(file, key, s) /\ s + Len(key) < FirstEnd(file)}

\* the place after the value that begins at vs: the next '\n' or '\r', or the
\* first byte 0x00, 0x1A or 0xFF, or the end of the file
ValueEnd(file, vs) ==
    LET stops == {j \in vs..Len(file) : file[j] \in {10, 13, 0, 26, 255}}
    IN  IF stops = {} THEN Len(file) + 1
        ELSE CHOOSE j \in stops : \A k \in stops : j <= k

Min(a, b) == IF a <= b THEN a ELSE b

\* C25 as stated: for any blob and non-empty key k, if the blob contains
\* "\nk=v\n", or begins with "k=v\n", where v holds no line or file end byte
\* and fits the caller's buffer, the lookup of k returns found with value v.
C25_AsStated ==
    Returned /\ lookup.key # <<>> =>
        \A s \in 1..Len(lookup.file) :
            LET vs == s + Len(lookup.key) + 1
                ve == ValueEnd(lookup.file, vs)
            IN  /\ KeyAt(lookup.file, lookup.key, s)
                /\ s = 1 \/ lookup.file[s - 1] = 10
                /\ ve <= Len(lookup.file)
                /\ lookup.file[ve] = 10
                /\ ve - vs <= lookup.capacity
                => /\ lookup.found
                   /\ lookup.value = SubSeq(lookup.file, vs, ve - 1)

\* C25 amended: for any blob and non-empty key k, the lookup of k returns
\* found exactly when a line k=v begins before the first byte 0x00, 0x1A or
\* 0xFF of the blob, a line beginning at the start of the blob or after a
\* '\n' or '\r'; the value returned is that of the first such line, up to the
\* next '\n' or '\r', the first byte 0x00, 0x1A or 0xFF or the end of the blob,
\* cut to the size of the caller's buffer, and its length is returned.
C25_FirstLineWins ==
    Returned /\ lookup.key # <<>> =>
        LET lines == KeyLines(lookup.file, lookup.key)
        IN  IF lines = {}
            THEN ~lookup.found /\ lookup.value_size = lookup.capacity
            ELSE LET s == CHOOSE x \in lines : \A y \in lines : x <= y
                     vs == s + Len(lookup.key) + 1
                     n == Min(ValueEnd(lookup.file, vs) - vs, lookup.capacity)
                 IN  /\ lookup.found
                     /\ lookup.value = SubSeq(lookup.file, vs, vs + n - 1)
                     /\ lookup.value_size = n

\* the blob "\na=a\n" was searched for "a" and the value "a" returned
C25_Witness ==
    /\ Returned
    /\ lookup.key = <<97>>
    /\ lookup.file = <<10, 97, 61, 97, 10>>
    /\ lookup.found
    /\ lookup.value = <<97>>
    /\ lookup.value_size = 1

-----------------------------------------------------------------------------
\* Claims about the editor of the RAM copy

\* the file held by the array: what comes before the first byte that ends a
\* file for the editor
TextOf(contents) ==
    LET ends == {i \in 1..Len(contents) : contents[i] \in {0, 27, 255}}
    IN  IF ends = {} THEN contents
        ELSE SubSeq(contents, 1, (CHOOSE i \in ends : \A j \in ends : i <= j) - 1)

\* the places where a line key=... begins
KeyLinesOf(text, key) == {s \in 1..Len(text) : KeyAt(text, key, s)}

Lowest(S) == CHOOSE x \in S : \A y \in S : x <= y

\* the place where the last line of the text begins, complete or not
LastLineStart(text) ==
    LET breaks == {j \in 0..Len(text) : j = 0 \/ text[j] \in {10, 13}}
    IN  1 + (CHOOSE j \in breaks : \A k \in breaks : k <= j)

SetDone == fh.pc = "returned" /\ fh.op = "file_set"

\* C26: after file_set(key, value) returned true, the file holds the line
\* key=value and a newline at the place of the first occurrence of the key, or
\* for a new key at the beginning of the last line, so that an incomplete last
\* line stays after it; what came before that place is as it was, so no
\* earlier occurrence of the key exists, and file_get(key) returns value.
C26_SetPlacesLine ==
    SetDone /\ fh.rc =>
        LET old == TextOf(fh.before)
            new == TextOf(fh.contents)
            line == fh.key \o <<61>> \o fh.value \o <<10>>
            olds == KeyLinesOf(old, fh.key)
            p == IF olds # {} THEN Lowest(olds) ELSE LastLineStart(old)
        IN  /\ p + Len(line) - 1 <= Len(new)
            /\ SubSeq(new, p, p + Len(line) - 1) = line
            /\ SubSeq(new, 1, p - 1) = SubSeq(old, 1, p - 1)
            /\ \A s \in KeyLinesOf(new, fh.key) : s >= p
            /\ olds = {} =>
                  SubSeq(new, p + Len(line), Len(new)) = SubSeq(old, p, Len(old))
            /\ \A beyond \in BytesBeyond :
                  LET got == file_get(Append(fh.contents, beyond), fh.key,
                                      ValueBufferSize)
                  IN  got.size = Len(fh.value) + 1 /\ got.value = fh.value

\* the new key "a" was set to "a" in the file "aa", whose only line is
\* incomplete and stays after the new line
C26_Witness ==
    /\ SetDone
    /\ fh.rc
    /\ TextOf(fh.before) = <<97, 97>>
    /\ fh.contents = <<97, 61, 97, 10, 97, 97>> \o
                     [i \in 1..(WIFI_SETTINGS_FILE_SIZE - 6) |-> 255]

\* the place after the line that begins at s and after the line ends that
\* follow it
OccurrenceEnd(text, s) ==
    LET after == {j \in s..(Len(text) + 1) :
                    /\ j > Len(text) \/ text[j] \notin {10, 13}
                    /\ \E e \in s..j :
                          /\ \A k \in s..(e - 1) : text[k] \notin {10, 13}
                          /\ \A k \in e..(j - 1) : text[k] \in {10, 13}
                          /\ e > Len(text) \/ text[e] \in {10, 13}}
    IN  Lowest(after)

\* the size of the file once key=value and a newline took the place of the
\* first occurrence of the key, or were added
SizeAfterSet(text, key, value) ==
    LET olds == KeyLinesOf(text, key)
        removed == IF olds = {} THEN 0
                   ELSE OccurrenceEnd(text, Lowest(olds)) - Lowest(olds)
    IN  Len(text) - removed + Len(key) + 1 + Len(value) + 1

\* C27: when key=value and its newline would make the file longer than
\* WIFI_SETTINGS_FILE_SIZE bytes, file_set returns false and leaves every byte
\* of the contents as it was; it returns false in no other case, and it never
\* writes outside the contents array.
C27_OverflowRefused ==
    SetDone =>
        LET over == SizeAfterSet(TextOf(fh.before), fh.key, fh.value)
                        > WIFI_SETTINGS_FILE_SIZE
        IN  /\ over => ~fh.rc /\ fh.contents = fh.before
            /\ ~over => fh.rc
            /\ fh.writes \subseteq 0..(WIFI_SETTINGS_FILE_SIZE - 1)

\* a file that has the key was refused a longer value for want of one byte
C27_Witness ==
    /\ SetDone
    /\ ~fh.rc
    /\ KeyLinesOf(TextOf(fh.before), fh.key) # {}
    /\ SizeAfterSet(TextOf(fh.before), fh.key, fh.value)
          = WIFI_SETTINGS_FILE_SIZE + 1
    /\ fh.contents = fh.before

DiscardDone == fh.pc = "returned" /\ fh.op = "file_discard"

\* C28: file_discard(key) terminates for every file content and every key:
\* every turn of its loop either returns or leaves a file shorter than it
\* found, so there are no more turns than the file has bytes; and when it has
\* returned no line key=... is left in the file: file_contains(key) is false.
C28_DiscardEnds ==
    /\ [][fh.pc = "discarding" /\ fh'.pc = "discarding" =>
            Len(TextOf(fh'.contents)) < Len(TextOf(fh.contents))]_vars
    /\ [](DiscardDone =>
            /\ KeyLinesOf(TextOf(fh.contents), fh.key) = {}
            /\ \A beyond \in BytesBeyond :
                  ~file_contains(Append(fh.contents, beyond), fh.key))

\* file_discard returned after it removed two lines of the key
C28_Witness ==
    /\ DiscardDone
    /\ Cardinality(KeyLinesOf(TextOf(fh.before), fh.key)) = 2
    /\ Len(TextOf(fh.contents)) < Len(TextOf(fh.before))
    /\ KeyLinesOf(TextOf(fh.contents), fh.key) = {}

-----------------------------------------------------------------------------
\* The handlers that write Flash (wifi_settings_remote_memory_access_handlers.c)

nothandler == <<remotevars, cmvars, savevars, lookupvars, filevars, discoveryvars, listenervars>>

\* Flash Range Abstraction (spec 4.1)
wifi_settings_range_align_to_sector(r) ==
    [start_address |-> (r.start_address \div FLASH_SECTOR_SIZE) * FLASH_SECTOR_SIZE,
     size |-> ((r.size + FLASH_SECTOR_SIZE - 1) \div FLASH_SECTOR_SIZE)
                  * FLASH_SECTOR_SIZE]

wifi_settings_range_is_contained(inner, outer) ==
    /\ inner.start_address >= outer.start_address
    /\ inner.start_address + inner.size <= outer.start_address + outer.size

wifi_settings_range_has_overlap(a, b) ==
    /\ a.start_address < b.start_address + b.size
    /\ b.start_address < a.start_address + a.size

wifi_settings_range_get_all ==
    [start_address |-> 0, size |-> PICO_FLASH_SIZE_BYTES]

wifi_settings_range_get_wifi_settings_file ==
    [start_address |-> PICO_FLASH_SIZE_BYTES - FLASH_SECTOR_SIZE,
     size |-> FLASH_SECTOR_SIZE]

wifi_settings_range_get_program ==
    [start_address |-> 0, size |-> ProgramSectors * FLASH_SECTOR_SIZE]

\* everything between the end of the program and the settings region
wifi_settings_range_get_reusable ==
    [start_address |-> ProgramSectors * FLASH_SECTOR_SIZE,
     size |-> wifi_settings_range_get_wifi_settings_file.start_address
                - ProgramSectors * FLASH_SECTOR_SIZE]

\* (variant: only the start address is compared)
check_for_alignment_of_start(fr) ==
    IF wifi_settings_range_align_to_sector(fr).start_address # fr.start_address
    THEN "PICO_ERROR_BAD_ALIGNMENT" ELSE "PICO_OK"

check_for_alignment_error(fr) ==
    LET fr2 == wifi_settings_range_align_to_sector(fr)
    IN  IF fr2.start_address # fr.start_address THEN "PICO_ERROR_BAD_ALIGNMENT"
        ELSE IF fr2.size # fr.size THEN "PICO_ERROR_INVALID_ARG"
        ELSE "PICO_OK"

AddressesOf(r) == r.start_address..(r.start_address + r.size - 1)

\* a read of Flash; past the end of Flash nothing answers
ReadFlash(flash, a) == IF a \in DOMAIN flash THEN flash[a] ELSE 255

flash_erase(flash, r) ==
    [a \in DOMAIN flash |-> IF a \in AddressesOf(r) THEN 255 ELSE flash[a]]

flash_program(flash, r, data) ==
    [a \in DOMAIN flash |->
        IF a \in AddressesOf(r) THEN data[a - r.start_address + 1] ELSE flash[a]]

\* the payload of a write request: input_data_size bytes that are not in Flash
DataBuffer(input_data_size) == [j \in 1..input_data_size |-> 7]

\* wifi_settings_write_flash_handler: its result, the Flash it leaves and the
\* addresses it erased or programmed
wifi_settings_write_flash_handler(flash, data_buffer, input_data_size, input_parameter, execute_ok) ==
    LET copy_to == [start_address |-> input_parameter, size |-> input_data_size]
        rc == check_for_alignment_error(copy_to)
        programmed == flash_program(flash_erase(flash, copy_to), copy_to, data_buffer)
    IN  IF rc # "PICO_OK"
        THEN [result |-> rc, flash |-> flash, touched |-> {}]
        ELSE IF ~wifi_settings_range_is_contained(
                     copy_to, wifi_settings_range_get_reusable)
        THEN [result |-> "PICO_ERROR_INVALID_ADDRESS", flash |-> flash,
              touched |-> {}]
        ELSE IF ~execute_ok
        THEN [result |-> "flash_safe_execute error", flash |-> flash,
              touched |-> {}]
        ELSE [result |-> IF \A a \in AddressesOf(copy_to) :
                               ReadFlash(programmed, a)
                                   = data_buffer[a - copy_to.start_address + 1]
                         THEN "PICO_OK" ELSE "PICO_ERROR_INVALID_DATA",
              flash |-> programmed, touched |-> AddressesOf(copy_to)]

\* SHA-256 of a range of Flash, as a value that tells the contents apart
sha256(flash, r) == [sha256 |-> [a \in AddressesOf(r) |-> ReadFlash(flash, a)]]

\* the digest of the image staged in size bytes of the reusable region
DigestOfImage(size) ==
    sha256(FlashAtBoot,
           [start_address |-> wifi_settings_range_get_reusable.start_address,
            size |-> size])

\* the contents of a digest, whatever the addresses it was taken at
SameDigest(d, e) ==
    LET x == d.sha256
        y == e.sha256
    IN  /\ Cardinality(DOMAIN x) = Cardinality(DOMAIN y)
        /\ \A a \in DOMAIN x :
              \E b \in DOMAIN y :
                  /\ Cardinality({c \in DOMAIN x : c < a})
                        = Cardinality({c \in DOMAIN y : c < b})
                  /\ x[a] = y[b]

wifi_settings_ota_firmware_update_handler1(flash, req) ==
    IF ~req.well_formed THEN "PICO_ERROR_INVALID_ARG"
    ELSE IF ~req.platform.lock_out THEN "PICO_ERROR_NOT_PERMITTED"
    ELSE IF ~req.platform.rom_funcs THEN "PICO_ERROR_UNSUPPORTED_MODIFICATION"
    ELSE IF req.copy_to.size # req.copy_from.size THEN "PICO_ERROR_INVALID_ARG"
    ELSE IF check_for_alignment_error(req.copy_from) # "PICO_OK"
    THEN check_for_alignment_error(req.copy_from)
    ELSE IF check_for_alignment_error(req.copy_to) # "PICO_OK"
    THEN check_for_alignment_error(req.copy_to)
    ELSE IF ~wifi_settings_range_is_contained(
                 req.copy_from, wifi_settings_range_get_reusable)
    THEN "PICO_ERROR_INVALID_ADDRESS"
    ELSE IF ~wifi_settings_range_is_contained(
                 req.copy_to, wifi_settings_range_get_all)
    THEN "PICO_ERROR_INVALID_ADDRESS"
    ELSE IF wifi_settings_range_has_overlap(req.copy_from, req.copy_to)
    THEN "PICO_ERROR_INVALID_ADDRESS"
    ELSE IF wifi_settings_range_has_overlap(
                wifi_settings_range_get_wifi_settings_file, req.copy_to)
    THEN "PICO_ERROR_INVALID_ADDRESS"
    ELSE IF ~SameDigest(sha256(flash, req.copy_from), req.hash)
    THEN "PICO_ERROR_MODIFIED_DATA"
    ELSE "PICO_OK"

\* do_ota_firmware_update, first loop: the sectors of the target are erased
RECURSIVE ota_erase(_, _, _)
ota_erase(flash, copy_to, i) ==
    IF i < copy_to.size
    THEN ota_erase(flash_erase(flash, [start_address |-> i + copy_to.start_address,
                                       size |-> FLASH_SECTOR_SIZE]),
                   copy_to, i + FLASH_SECTOR_SIZE)
    ELSE flash

\* do_ota_firmware_update, second loop: each sector is read from the source
\* and programmed at the target
RECURSIVE ota_write(_, _, _, _)
ota_write(flash, copy_from, copy_to, i) ==
    IF i < copy_to.size
    THEN ota_write(
             flash_program(flash,
                 [start_address |-> i + copy_to.start_address,
                  size |-> FLASH_SECTOR_SIZE],
                 [j \in 1..FLASH_SECTOR_SIZE |->
                     ReadFlash(flash, copy_from.start_address + i + j - 1)]),
             copy_from, copy_to, i + FLASH_SECTOR_SIZE)
    ELSE flash

\* the sectors the two loops go through
OtaSectors(copy_to) ==
    UNION {AddressesOf([start_address |-> i + copy_to.start_address,
                        size |-> FLASH_SECTOR_SIZE]) :
              i \in {k \in 0..(copy_to.size - 1) : k % FLASH_SECTOR_SIZE = 0}}

\* (variant: the second stage does not look at the result of the first)
ota_stage2_always(callback1_parameter) == TRUE

\* callback1_parameter != 0 makes the second stage return at once
ota_stage2_proceeds(callback1_parameter) == callback1_parameter = "PICO_OK"

\* wifi_settings_ota_firmware_update_handler2: the Flash it leaves and the
\* addresses it erased or programmed
wifi_settings_ota_firmware_update_handler2(flash, req, callback1_parameter) ==
    IF ~ota_stage2_proceeds(callback1_parameter)
    THEN [flash |-> flash, touched |-> {}]
    ELSE IF ~req.platform.rom_funcs THEN [flash |-> flash, touched |-> {}]
    ELSE IF ~req.platform.execute THEN [flash |-> flash, touched |-> {}]
    ELSE [flash |-> ota_write(ota_erase(flash, req.copy_to, 0),
                              req.copy_from, req.copy_to, 0),
          touched |-> OtaSectors(req.copy_to)]

\* Flash addresses and sizes a request may name
FlashAddresses == 0..(PICO_FLASH_SIZE_BYTES + 1)
DataSizes == 0..(2 * FLASH_SECTOR_SIZE + 1)
FlashRanges ==
    [start_address : FlashAddresses, size : DataSizes]

\* what the platform grants: wifi_settings_can_lock_out, the boot ROM
\* functions, and flash_safe_execute or wifi_settings_do_lock_out
Platforms == [lock_out : BOOLEAN, rom_funcs : BOOLEAN, execute : BOOLEAN]

\* a request for ID_WRITE_FLASH_HANDLER is handled
WriteFlash ==
    /\ request.pc = "idle"
    /\ \E copy_to \in FlashRanges, execute_ok \in BOOLEAN :
         LET r == wifi_settings_write_flash_handler(
                      flash_dev, DataBuffer(copy_to.size), copy_to.size,
                      copy_to.start_address, execute_ok)
         IN  /\ flash_dev' = r.flash
             /\ request' = [NoRequest EXCEPT
                              !.pc = "done", !.handler = "write_flash",
                              !.copy_to = copy_to,
                              !.platform.execute = execute_ok,
                              !.result = r.result, !.touched = r.touched]
    /\ UNCHANGED nothandler

\* the first stage of ID_OTA_FIRMWARE_UPDATE_HANDLER validates a request
OtaStage1 ==
    /\ request.pc = "idle"
    /\ \E copy_from \in FlashRanges, copy_to \in FlashRanges,
          good_hash \in BOOLEAN, well_formed \in BOOLEAN,
          platform \in Platforms :
         LET req == [NoRequest EXCEPT
                       !.handler = "ota_firmware_update",
                       !.copy_from = copy_from, !.copy_to = copy_to,
                       !.hash = IF good_hash THEN DigestOfImage(copy_from.size)
                                ELSE DigestOfImage(0),
                       !.well_formed = well_formed, !.platform = platform]
         IN  request' = [req EXCEPT
                           !.pc = "acknowledge",
                           !.result = wifi_settings_ota_firmware_update_handler1(
                                          flash_dev, req)]
    /\ UNCHANGED <<flash_dev, nothandler>>

\* the reply has been sent and the second stage is called
OtaStage2 ==
    /\ request.pc = "acknowledge"
    /\ LET r == wifi_settings_ota_firmware_update_handler2(
                    flash_dev, request, request.result)
       IN  /\ flash_dev' = r.flash
           /\ request' = [request EXCEPT !.pc = "done", !.touched = r.touched]
    /\ UNCHANGED nothandler

NextHandlers == WriteFlash \/ OtaStage1 \/ OtaStage2

SpecHandlers == InitConnect /\ [][NextHandlers]_vars

-----------------------------------------------------------------------------
\* Claims about the handlers that write Flash

\* the Flash holding neither the running program nor the settings
ReusableAddresses ==
    (0..(PICO_FLASH_SIZE_BYTES - 1))
        \ (AddressesOf(wifi_settings_range_get_program)
             \cup AddressesOf(wifi_settings_range_get_wifi_settings_file))

FlashModified == request.touched # {} \/ flash_dev # FlashAtBoot

WriteDone == request.handler = "write_flash" /\ request.pc = "done"

\* what the write handler asks of its target
WriteAllowed ==
    /\ request.copy_to.start_address % FLASH_SECTOR_SIZE = 0
    /\ request.copy_to.size % FLASH_SECTOR_SIZE = 0
    /\ request.copy_to.start_address
           >= wifi_settings_range_get_reusable.start_address
    /\ AddressesOf(request.copy_to) \subseteq ReusableAddresses

\* C29: the write handler erases or programs Flash only when the target
\* starts on a sector, is a whole number of sectors long and lies within the
\* reusable region, and then only within the target; in every other case it
\* returns an error and Flash is as it was.
C29_WriteOnlyReusable ==
    WriteDone =>
        /\ FlashModified =>
              /\ WriteAllowed
              /\ request.touched = AddressesOf(request.copy_to)
              /\ \A a \in DOMAIN flash_dev :
                    a \notin ReusableAddresses => flash_dev[a] = FlashAtBoot[a]
        /\ ~WriteAllowed =>
              /\ request.result # "PICO_OK"
              /\ ~FlashModified

C29_Witness ==
    /\ WriteDone
    /\ request.result = "PICO_OK"
    /\ request.touched # {}
    /\ flash_dev # FlashAtBoot

OtaDone == request.handler = "ota_firmware_update" /\ request.pc = "done"

\* what the first stage has to have found for the update to go ahead
OtaValid ==
    /\ AddressesOf(request.copy_from) \subseteq ReusableAddresses
    /\ AddressesOf(request.copy_to) \subseteq 0..(PICO_FLASH_SIZE_BYTES - 1)
    /\ AddressesOf(request.copy_to) \cap AddressesOf(request.copy_from) = {}
    /\ AddressesOf(request.copy_to)
          \cap AddressesOf(wifi_settings_range_get_wifi_settings_file) = {}
    /\ SameDigest(sha256(FlashAtBoot, request.copy_from), request.hash)

\* C30: the second stage of the firmware update erases or programs Flash only
\* if the first stage returned success for the same request (source within
\* the reusable region, target within Flash and overlapping neither the
\* source nor the settings, digest of the source equal to the one supplied);
\* after an error of the first stage the second stage changes nothing.
C30_Stage2OnlyAfterSuccess ==
    /\ request.pc = "acknowledge" => ~FlashModified
    /\ OtaDone =>
          /\ FlashModified => request.result = "PICO_OK" /\ OtaValid
          /\ request.result # "PICO_OK" => ~FlashModified

C30_Witness ==
    /\ OtaDone
    /\ request.result = "PICO_OK"
    /\ request.touched # {}
    /\ flash_dev # FlashAtBoot
    /\ \E a \in AddressesOf(request.copy_to) :
          flash_dev[a] = FlashAtBoot[request.copy_from.start_address
                                       + a - request.copy_to.start_address]

-----------------------------------------------------------------------------
\* The settings store: reading the RAM copy (file_get, file_get_next_key_value)
\* next to the lookup in the settings file

Max(a, b) == IF a >= b THEN a ELSE b

\* find_next_key, first loop: the last index of fh->contents it reads
RECURSIVE last_line_start_read(_, _)
last_line_start_read(c, index) ==
    IF is_end_of_line_char(At(c, index))
    THEN IF is_end_of_file_char(At(c, index)) THEN index
         ELSE IF index + 1 >= WIFI_SETTINGS_FILE_SIZE THEN index
         ELSE last_line_start_read(c, index + 1)
    ELSE index

\* find_next_key: the highest index of fh->contents it reads (it reads every
\* index from end_index up to that one)
RECURSIVE find_next_key_reads(_, _)
find_next_key_reads(c, end_index) ==
    LET start == next_line_start(c, end_index)
    IN  IF start = -1 THEN last_line_start_read(c, end_index)
        ELSE LET index == next_separator(c, start)
             IN  IF index = -1 THEN Max(start, WIFI_SETTINGS_FILE_SIZE - 1)
                 ELSE IF At(c, index) = 61 /\ start < index
                 THEN IF value_end(c, index + 1) < WIFI_SETTINGS_FILE_SIZE
                      THEN value_end(c, index + 1)
                      ELSE Max(index, WIFI_SETTINGS_FILE_SIZE - 1)
                 ELSE LET eol == line_end(c, index)
                      IN  IF eol = -1
                          THEN Max(index, WIFI_SETTINGS_FILE_SIZE - 1)
                          ELSE find_next_key_reads(c, eol)

\* find_index: the highest index read by its calls of find_next_key
RECURSIVE find_from_reads(_, _, _)
find_from_reads(c, key, end_index) ==
    LET fir == find_next_key(c, end_index)
        highest == find_next_key_reads(c, end_index)
    IN  IF ~fir.found \/ same_key(c, key, fir) THEN highest
        ELSE Max(highest, find_from_reads(c, key, fir.end_index))

\* copy_bytes_needed: the string left in the caller's buffer
copy_bytes_needed(c, start_index, bytes_needed, value_size) ==
    LET bytes_used == IF bytes_needed > value_size THEN value_size
                      ELSE bytes_needed
    IN  [j \in 1..(bytes_used - 1) |-> At(c, start_index + j - 1)]

\* file_get_next_key_value: the key and value found from search_index on and
\* the cursor to go on from
file_get_next_key_value(c, search_index, key_size, value_size) ==
    LET fir == find_next_key(c, search_index)
    IN  IF ~fir.found
        THEN [size |-> -1, key |-> <<>>, value |-> <<>>,
              search_index |-> WIFI_SETTINGS_FILE_SIZE]
        ELSE [size |-> fir.value_index - fir.key_index,
              key |-> copy_bytes_needed(c, fir.key_index,
                          fir.value_index - fir.key_index, key_size),
              value |-> copy_bytes_needed(c, fir.value_index,
                          1 + fir.end_index - fir.value_index, value_size),
              search_index |-> fir.end_index]

\* the bytes of a settings file, the end-of-file bytes of both readers among
\* them
ReadAlphabet == {97, 61, 10, 0, 26, 27}

\* the contents read: a text and 0xff after it, or what file_load may bring
\* (a file that fills the array among them)
ReadFiles ==
    {text \o [i \in 1..(WIFI_SETTINGS_FILE_SIZE - Len(text)) |-> 255] :
        text \in UNION {[1..n -> ReadAlphabet] : n \in 0..MaxFileLen}}
    \cup RamFiles

\* the same contents are given to the editor and to the lookup
ReadLoad ==
    /\ fh.pc = "idle"
    /\ lookup.pc = "idle"
    /\ \E contents \in ReadFiles, key \in FileKeys :
         /\ fh' = [NoFile EXCEPT !.pc = "reading", !.contents = contents,
                                 !.before = contents, !.key = key]
         /\ lookup' = [NoLookup EXCEPT
                         !.pc = "called", !.file = contents, !.key = key,
                         !.capacity = WIFI_SETTINGS_FILE_SIZE,
                         !.value_size = WIFI_SETTINGS_FILE_SIZE]
    /\ UNCHANGED <<remotevars, cmvars, savevars, handlervars, discoveryvars, listenervars>>

FileGet ==
    /\ fh.pc = "reading"
    /\ lookup.pc = "returned"
    /\ \E beyond \in BytesBeyond :
         LET c == Append(fh.contents, beyond)
             r == file_get(c, fh.key, ValueBufferSize)
         IN  fh' = [fh EXCEPT !.pc = "returned", !.op = "file_get",
                              !.rc = (r.size # -1), !.value = r.value,
                              !.reads = 0..find_from_reads(c, fh.key, 0)]
    /\ UNCHANGED notfile

FileGetNextKeyValue ==
    /\ fh.pc = "reading"
    /\ lookup.pc = "returned"
    /\ \E search_index \in 0..WIFI_SETTINGS_FILE_SIZE, beyond \in BytesBeyond :
         LET c == Append(fh.contents, beyond)
             r == file_get_next_key_value(c, search_index, ValueBufferSize,
                                          ValueBufferSize)
         IN  fh' = [fh EXCEPT !.pc = "returned",
                              !.op = "file_get_next_key_value",
                              !.rc = (r.size # -1), !.key = r.key,
                              !.value = r.value,
                              !.search_index = r.search_index,
                              !.reads = search_index
                                          ..find_next_key_reads(c, search_index)]
    /\ UNCHANGED notfile

NextRead == ReadLoad \/ LookupReturn \/ FileGet \/ FileGetNextKeyValue

SpecRead == InitConnect /\ [][NextRead]_vars

-----------------------------------------------------------------------------
\* Claims about reading the RAM copy

GetDone == fh.pc = "returned" /\ fh.op = "file_get"

\* C38: the editor and the lookup end a file at the same bytes (0x00, 0x1a,
\* 0xff), so for every contents and key file_get finds a value exactly when
\* the lookup finds one, and both give the same bytes.
C38_SameAnswer ==
    GetDone =>
        /\ fh.rc <=> lookup.found
        /\ fh.rc => fh.value = lookup.value

\* C39: find_next_key reads fh->contents only at indices below
\* WIFI_SETTINGS_FILE_SIZE, whatever the contents and the cursor it starts at.
C39_ReadsWithinArray ==
    fh.pc = "returned" /\ fh.op \in {"file_get", "file_get_next_key_value"} =>
        \A index \in fh.reads : index < WIFI_SETTINGS_FILE_SIZE

-----------------------------------------------------------------------------
\* The discovery responder (responder_recv in wifi_settings_remote.c)

notdiscovery ==
    <<remotevars, cmvars, savevars, lookupvars, filevars, handlervars, listenervars>>

\* "PWS?" and "PWS:"
RESPONDER_REQUEST_MAGIC == <<80, 87, 83, 63>>
RESPONDER_REPLY_MAGIC == <<80, 87, 83, 58>>

\* sizeof(responder_packet_t): magic[4] and board_id_hex[BOARD_ID_SIZE * 2 + 1]
ResponderPacketSize == 4 + BoardIdChars + 1

\* the board id of this device, "121"
wifi_settings_get_board_id_hex == <<49, 50, 49>>

\* a C string: the bytes before the first NUL
RECURSIVE CString(_)
CString(bytes) ==
    IF bytes = <<>> \/ Head(bytes) = 0 THEN <<>>
    ELSE <<Head(bytes)>> \o CString(Tail(bytes))

\* (variant: the needle is looked for at the start of the haystack only)
strstr_at_start(haystack, needle) ==
    IF Len(needle) <= Len(haystack) /\ SubSeq(haystack, 1, Len(needle)) = needle
    THEN 0 ELSE -1

\* strstr: where needle first occurs in haystack, -1 for NULL
strstr(haystack, needle) ==
    LET places == {i \in 0..(Len(haystack) - Len(needle)) :
                      SubSeq(haystack, i + 1, i + Len(needle)) = needle}
    IN  IF places = {} THEN -1
        ELSE CHOOSE i \in places : \A j \in places : i <= j

\* responder_recv: the datagrams it sends, given the datagram it is called
\* with and whether pbuf_alloc gives a buffer for the reply
responder_recv(has_payload, payload, addr, port, alloc_ok) ==
    LET copied == IF has_payload
                  THEN SubSeq(payload, 1, Min(ResponderPacketSize, Len(payload)))
                  ELSE <<>>
        mp == copied \o [i \in 1..(ResponderPacketSize - Len(copied)) |-> 0]
        magic == SubSeq(mp, 1, 4)
        board_id_hex == CString(SubSeq(mp, 5, 4 + BoardIdChars) \o <<0>>)
        reply == RESPONDER_REPLY_MAGIC \o wifi_settings_get_board_id_hex \o <<0>>
    IN  IF magic # RESPONDER_REQUEST_MAGIC THEN <<>>
        ELSE IF strstr(wifi_settings_get_board_id_hex, board_id_hex) = -1
        THEN <<>>
        ELSE IF ~alloc_ok THEN <<>>
        ELSE <<[payload |-> reply, addr |-> addr, port |-> port]>>

\* what a datagram may begin with: the request magic, the reply magic, a
\* magic cut short, a magic in the wrong case
DatagramHeads == {RESPONDER_REQUEST_MAGIC, RESPONDER_REPLY_MAGIC,
                  <<80, 87, 83>>, <<112, 87, 83, 63>>}

\* what may follow: characters '1' and '2' and NUL, up to one byte more than
\* the packet holds
DatagramRests == UNION {[1..n -> {49, 50, 0}] : n \in 0..(BoardIdChars + 2)}

Senders == {[addr |-> "192.168.0.2", port |-> 1404],
            [addr |-> "192.168.0.3", port |-> 50000]}

\* a datagram comes to the port of the responder
DatagramArrives ==
    /\ responder.pc = "idle"
    /\ \E head \in DatagramHeads, rest \in DatagramRests, sender \in Senders,
          has_payload \in BOOLEAN, alloc_ok \in BOOLEAN :
         /\ ~has_payload => head = RESPONDER_REQUEST_MAGIC /\ rest = <<>>
         /\ responder' =
              [NoDatagram EXCEPT
                 !.pc = "received", !.has_payload = has_payload,
                 !.payload = head \o rest, !.addr = sender.addr,
                 !.port = sender.port, !.alloc_ok = alloc_ok]
    /\ UNCHANGED notdiscovery

\* the transport calls responder_recv with it
ResponderRecv ==
    /\ responder.pc = "received"
    /\ responder' =
         [responder EXCEPT
            !.pc = "handled",
            !.sent = responder_recv(responder.has_payload, responder.payload,
                                    responder.addr, responder.port,
                                    responder.alloc_ok)]
    /\ UNCHANGED notdiscovery

NextDiscovery == DatagramArrives \/ ResponderRecv

SpecDiscovery == InitConnect /\ [][NextDiscovery]_vars

-----------------------------------------------------------------------------
\* Claims about the discovery responder

Handled == responder.pc = "handled"

\* the datagram starts with "PWS?"
StartsWithMagic ==
    /\ responder.has_payload
    /\ Len(responder.payload) >= 4
    /\ \A i \in 1..4 : responder.payload[i] = RESPONDER_REQUEST_MAGIC[i]

\* the id asked for: what follows the magic, up to a NUL, the end of the
\* datagram or the length of a board id
QueriedId ==
    LET after == [i \in 1..Min(BoardIdChars, Len(responder.payload) - 4) |->
                     responder.payload[i + 4]]
        nuls == {i \in 1..Len(after) : after[i] = 0}
    IN  IF nuls = {} THEN after
        ELSE SubSeq(after, 1, (CHOOSE i \in nuls : \A j \in nuls : i <= j) - 1)

IsSubstring(part, whole) ==
    \E before \in 0..Len(whole) :
        /\ before + Len(part) <= Len(whole)
        /\ \A i \in 1..Len(part) : whole[before + i] = part[i]

\* the replies are one datagram with "PWS:" and the whole board id, sent to
\* where the request came from
ProperReply ==
    /\ Len(responder.sent) = 1
    /\ SubSeq(responder.sent[1].payload, 1, 4 + BoardIdChars)
          = RESPONDER_REPLY_MAGIC \o wifi_settings_get_board_id_hex
    /\ responder.sent[1].addr = responder.addr
    /\ responder.sent[1].port = responder.port

\* C31, as stated: a reply is sent exactly when the datagram starts with
\* "PWS?" and the id asked for is a substring of the board id.
C31_AsStated ==
    Handled =>
        /\ responder.sent # <<>> <=>
              StartsWithMagic /\ IsSubstring(QueriedId, wifi_settings_get_board_id_hex)
        /\ responder.sent # <<>> => ProperReply

\* C31: a reply ("PWS:" and the whole board id, to the sender's address and
\* port) is sent exactly when the datagram starts with "PWS?", the id asked
\* for is a substring of the board id, and a buffer for the reply could be
\* allocated; every other datagram is answered by nothing.
C31_ReplyIffMatch ==
    Handled =>
        /\ responder.sent # <<>> <=>
              /\ StartsWithMagic
              /\ IsSubstring(QueriedId, wifi_settings_get_board_id_hex)
              /\ responder.alloc_ok
        /\ responder.sent # <<>> => ProperReply

\* a reply to a request for an id from the middle of the board id
C31_Witness ==
    /\ Handled
    /\ ProperReply
    /\ QueriedId = <<50>>
    /\ responder.addr = "192.168.0.3"

-----------------------------------------------------------------------------
\* Claims about the remote service: refused request headers

\* msg_type has a handler in table
Registered(table, msg_type) ==
    /\ msg_type >= ID_FIRST_HANDLER
    /\ msg_type < ID_FIRST_HANDLER + NUM_HANDLERS
    /\ table[msg_type - ID_FIRST_HANDLER] # NoHandler

\* the request header a block of the history holds once decrypted
HeaderOf(e) ==
    IF e.blk.kind = "enc" /\ e.blk.key # NoTag THEN e.blk.pt ELSE GarbageHeader

IsHeaderEvent(e) == e.ev = "in" /\ e.st = "EXPECT_ENC_REQUEST_HEADER"

\* the error a request header calls for (0: none)
HeaderErrorId(table, hdr) ==
    IF ~Registered(table, hdr.msg_type) THEN ID_BAD_HANDLER_ERROR
    ELSE IF hdr.data_size > MAX_DATA_SIZE THEN ID_BAD_PARAM_ERROR
    ELSE 0

\* the state in which the error block id is still to be generated
SendStateOf(id) ==
    IF id = ID_BAD_HANDLER_ERROR THEN "SEND_BAD_HANDLER_ERROR"
    ELSE "SEND_BAD_PARAM_ERROR"

IsEncError(b, id) ==
    IsEncHeader(b) /\ b.pt.msg_type = id /\ b.pt.data_size = 0

\* from position i of the new history on nothing is handled: no block is
\* accepted, no request is completed, no handler is called
NothingHandledAfter(i) ==
    \A j \in (i + 1)..Len(trace') :
        /\ trace'[j].ev \notin {"cb1", "cb2", "req_end"}
        /\ trace'[j].ev = "in" => ~trace'[j].handled

\* what is generated from count ngen on is at most the error block id, with
\* which the session is in DISCONNECT; until then the session waits to
\* generate it, or is in DISCONNECT without it
OnlyErrorGenerated(ngen, id) ==
    /\ Len(generated') <= ngen + 1
    /\ Len(generated') = ngen + 1 =>
          /\ IsEncError(generated'[ngen + 1], id)
          /\ heap' = "live" => session'.state = "DISCONNECT"
    /\ Len(generated') = ngen /\ heap' = "live" =>
          session'.state \in {SendStateOf(id), "DISCONNECT"}

\* the step in which a request header is refused
RefusedInStep ==
    \A i \in (Len(trace) + 1)..Len(trace') :
        LET id == HeaderErrorId(g_handler_table, HeaderOf(trace'[i]))
        IN  IsHeaderEvent(trace'[i]) /\ id # 0 =>
              /\ NothingHandledAfter(i)
              /\ OnlyErrorGenerated(trace'[i].ngen, id)

\* the steps after it, while the error block is still to be generated
RefusedBefore ==
    \A id \in {ID_BAD_HANDLER_ERROR, ID_BAD_PARAM_ERROR} :
        heap = "live" /\ session.state = SendStateOf(id) =>
            /\ NothingHandledAfter(Len(trace))
            /\ OnlyErrorGenerated(Len(generated), id)

\* an error block is the last block generated, and is generated for a
\* request header only
ErrorBlockIsLast ==
    \A g \in DOMAIN generated :
        IsEncError(generated[g], ID_BAD_HANDLER_ERROR)
          \/ IsEncError(generated[g], ID_BAD_PARAM_ERROR) =>
            /\ g = Len(generated)
            /\ heap = "live" => session.state = "DISCONNECT"
            /\ \E i \in DOMAIN trace : IsHeaderEvent(trace[i])

-----------------------------------------------------------------------------
\* The listener among the other parts of the program: wifi_settings_remote_init
\* binds it once, with server_accept as its accept callback, and the
\* connection manager runs beside it.  Of each session only its existence is
\* followed here.

\* server_accept: the session_t it allocates, if any (ERR_VAL and ERR_MEM
\* allocate none); it looks at nothing else
server_accept_allocates(err_ok, client_pcb_ok, calloc_ok) ==
    IF ~err_ok \/ ~client_pcb_ok THEN 0
    ELSE IF ~calloc_ok THEN 0
    ELSE 1

\* the transport has a connection for the listener when the interface is up
\* and has an address; the sessions already open do not count (the backlog
\* of the listener bounds the connections waiting to be accepted)
ConnectionArrives == cyw43_state.link_up /\ cyw43_state.ip

\* a client connects: the transport calls server_accept with a new pcb
ListenerAccept ==
    /\ ConnectionArrives
    /\ live_sessions < MaxClients
    /\ \E err_ok \in BOOLEAN, client_pcb_ok \in BOOLEAN, calloc_ok \in BOOLEAN :
          live_sessions' = live_sessions
                             + server_accept_allocates(err_ok, client_pcb_ok, calloc_ok)
    /\ UNCHANGED <<remotevars, cmvars, savevars, lookupvars, filevars,
                   handlervars, discoveryvars>>

\* a session ends: server_recv, server_sent or server_err frees its session_t
SessionFreed ==
    /\ live_sessions > 0
    /\ live_sessions' = live_sessions - 1
    /\ UNCHANGED <<remotevars, cmvars, savevars, lookupvars, filevars,
                   handlervars, discoveryvars>>

NextService == NextConnect \/ ListenerAccept \/ SessionFreed

SpecService == InitConnect /\ [][NextService]_vars

\* C35: at any time at most one remote session exists: while the session of
\* one accepted connection is still allocated, the listener allocates no
\* second one.
C35_AtMostOneSession == live_sessions <= 1

\* C34: a session_t is allocated only while the connection manager is in
\* CONNECTED_IP: none is created in another state, and none is left when the
\* manager has left CONNECTED_IP.
C34_SessionOnlyWhenConnected ==
    live_sessions > 0 => g_wifi_state.cstate = "CONNECTED_IP"


-----------------------------------------------------------------------------
\* Claims about the remote service: input that meets a session which cannot
\* take it

\* C37: whenever server_recv stores a received byte into input_block,
\* input_block_offset is below AES_BLOCK_SIZE, also in a receive event that
\* follows one in which an overflow was detected and the session is not yet
\* freed: no byte is ever stored outside the input block.
C37_StoresInsideInputBlock == ~oob_store


\* the request completed last (0: none)
LastRequest == LastBefore("req_end", Len(trace) + 1)

\* The request completed last has passed validation and is for a handler
\* that has a stage-2 callback; its reply header, ID_OK with no data, has
\* been written; the session and its connection are still there.
Stage2Due ==
    /\ heap = "live" /\ pcb.st = "open" /\ pcb.arg = "session"
    /\ LastRequest # 0
    /\ LET r == trace[LastRequest]
       IN /\ Registered(g_handler_table, r.hdr.msg_type)
          /\ g_handler_table[r.hdr.msg_type - ID_FIRST_HANDLER].callback2 # NULL
          /\ Len(written) > r.ngen
          /\ IsEncError(written[r.ngen + 1], ID_OK)

\* the step is a bytes-sent event for all that has been written
SentDelivered == unacked > 0 /\ unacked' = 0 /\ Len(written') = Len(written)

\* the step calls a stage-2 callback
Stage2Called == \E i \in NewEvents : trace'[i].ev = "cb2"

\* a full input block has come since the request completed last, and was
\* refused
BlockRefusedSince(r) ==
    \E i \in Events("in") : i > r /\ ~trace[i].handled

\* C36 (as stated): when the reply header of a validated stage-2 request has
\* been written and the bytes-sent event for it is delivered, the stage-2
\* callback is called, whatever input came in between.
C36_AsStated == [][(Stage2Due /\ SentDelivered) => Stage2Called]_vars

\* C36 (amended): when the reply header of a validated stage-2 request has
\* been written and the bytes-sent event for it is delivered, the stage-2
\* callback is called, provided that no full 16-byte block of input has come
\* since the request was completed (such a block is refused and the session
\* ends without the call); fewer bytes than a block do not prevent the call.
C36_Stage2AfterHeaderSent ==
    [][(Stage2Due /\ ~BlockRefusedSince(LastRequest) /\ SentDelivered)
          => Stage2Called]_vars

\* the stage-2 callback of the user handler was called in the bytes-sent
\* event that followed the writing of the reply header
C36_Witness ==
    /\ ~rebooted /\ unacked = 0
    /\ \E i \in Events("cb2") :
          /\ trace[i].fn = "user_callback2"
          /\ LastBefore("req_end", i) # 0
          /\ trace[i].nw > trace[LastBefore("req_end", i)].ngen
          /\ ~BlockRefusedSince(LastBefore("req_end", i))


-----------------------------------------------------------------------------
\* Claims about the remote service: the end of a session in DISCONNECT

\* the session is in DISCONNECT, still allocated, on a connection still open
DisconnectPending ==
    heap = "live" /\ pcb.st = "open" /\ session.state = "DISCONNECT"

\* C40: every session that enters DISCONNECT is closed and freed without a
\* further event from the peer, also when a write error made it enter
\* DISCONNECT.  Between two events a session in DISCONNECT is ended only by
\* server_sent, and the transport calls server_sent only for blocks written
\* and not yet acknowledged: so such a session always has one to come.
C40_DisconnectEndsUnaided == DisconnectPending => unacked > 0


-----------------------------------------------------------------------------
\* Claims about the connection manager: the driver calls of a tick

\* the step is a tick that starts a join
JoinStarts == Ticked /\ g_wifi_state.cstate = "SCANNING"
                     /\ g_wifi_state'.cstate = "CONNECTING"

\* the link as cyw43_wifi_leave left it in this tick: down, without address
LeftInTick == ~cyw43_state'.link_up /\ ~cyw43_state'.ip

\* The scan or the join of a tick is started on a link that was left in the
\* same tick (the first half of C33; whether a scan can be started while an
\* earlier one is still active depends on the order of cyw43_wifi_scan_active
\* and cyw43_wifi_scan in the TRY_TO_CONNECT branch, which the transition
\* table does not give)
StartsAfterLeave ==
    [][/\ ScanStarts => LeftInTick /\ cyw43_state'.joined = 0
                                 /\ cyw43_state'.link_status = "CYW43_LINK_DOWN"
       /\ JoinStarts => LeftInTick /\ cyw43_state'.joined # 0]_vars

=============================================================================
